---- MODULE Spec2Model ----
(***************************************************************************)
(* State-machine model of the department agents of the company simulation: *)
(*   DevOps   (src/src/departments/devops.rs)   deployments, detached      *)
(*            execution tasks                                              *)
(*   InfoSec  (src/src/departments/infosec.rs)  security posture, scans,    *)
(*            compliance audit, security incidents, security controls      *)
(*   Ops      (src/src/departments/ops.rs)      incidents, change queue,   *)
(*            support tickets, SLA tracking                                *)
(*   Networking (src/src/departments/networking.rs)  network segments,     *)
(*            bandwidth metrics, firewall rules, registered services,      *)
(*            load balancers                                               *)
(*   Orchestrator (src/src/main.rs)  agent registry, run loop and the      *)
(*            phases of a simulation step, message bus                     *)
(*   perform_daily_tasks and process_message of the departments            *)
(* Every agent is a single-owner object (&mut self); the only concurrent   *)
(* unit is the task tokio::spawn starts in deploy_application.             *)
(***************************************************************************)
EXTENDS Integers, Sequences, FiniteSets, TLC

VARIABLES
    active_deployments,   \* DevOpsAgent.active_deployments : id -> Deployment
    tasks,                \* detached tokio tasks : id -> "spawned" | "finished" | "dropped"
    dev_pc,               \* position of the driver inside deploy_application
    dev_frame,            \* locals of the deploy_application call in progress
    dev_ret,              \* value returned by the last DevOps operation
    security_posture,     \* InfoSecAgent.security_posture
    infosec_ret,          \* value returned by the last InfoSec operation
    incidents,            \* OpsAgent.incidents : id -> Incident
    change_queue,         \* OpsAgent.change_queue : Seq(ChangeRequest)
    ops_ret,              \* value returned by the last Ops operation
    support_tickets,      \* OpsAgent.support_tickets : id -> SupportTicket
    ops_msg,              \* the create_ticket message of the last ticket creation
    servers,              \* DevOpsAgent.infrastructure_state.servers : id -> ServerStatus
    infra_ret,            \* value returned by the last DevOps server operation
    segments,             \* NetworkingAgent.network_topology.segments : id -> NetworkSegment
    net_ret,              \* value returned by the last Networking operation
    bus_channels,         \* MessageBus: per (sender, recipient) queue of undelivered messages
    bus_inbox,            \* per agent: the messages delivered to it, in delivery order
    bus_sent,             \* the messages accepted by send_message, in order
    bus_ret,              \* value returned by the last send_message
    run_pc,               \* position of CompanySimulation::run in its loop
    step_count,           \* the local step_count of run
    steps_run,            \* number of run_simulation_step calls made by run
    run_frame,            \* config and locals of the run call
    compliance_status,    \* InfoSecAgent.compliance_status
    active_incidents,   \* InfoSecAgent.active_incidents : id -> SecurityIncident
    bandwidth_usage,      \* NetworkingAgent.performance_metrics.bandwidth_usage
    firewall_rules,       \* NetworkingAgent.network_topology.firewall_rules
    network_services,     \* NetworkingAgent.network_services : name -> NetworkService
    agents,               \* CompanySimulation.agents : registry key -> agent
    agents_order,         \* the order self.agents is iterated in, once observed
    step_frame,           \* position and locals of run_simulation_step
    daily_frame,          \* calls and result of the last perform_daily_tasks call
    sla_compliance,       \* OpsAgent.sla_tracking.compliance : service -> percentage
    sla_violations,       \* OpsAgent.sla_tracking.violations : Seq(SLAViolation)
    load_balancers,       \* NetworkingAgent.network_topology.load_balancers
    active_controls       \* InfoSecAgent.security_posture.active_controls

vars == << active_deployments, tasks, dev_pc, dev_frame, dev_ret,
           security_posture, infosec_ret,
           incidents, change_queue, ops_ret,
           support_tickets, ops_msg, servers, infra_ret, segments, net_ret,
           bus_channels, bus_inbox, bus_sent, bus_ret,
           run_pc, step_count, steps_run, run_frame,
           compliance_status, active_incidents,
           bandwidth_usage, firewall_rules, network_services,
           agents, agents_order, step_frame, daily_frame,
           sla_compliance, sla_violations, load_balancers, active_controls >>

devops_vars == << active_deployments, tasks, dev_pc, dev_frame, dev_ret >>
infosec_vars == << security_posture, infosec_ret >>
ops_vars == << incidents, change_queue, ops_ret >>
ticket_vars == << support_tickets, ops_msg >>
server_vars == << servers, infra_ret >>
net_vars == << segments, net_ret >>
bus_vars == << bus_channels, bus_inbox, bus_sent, bus_ret >>
run_vars == << run_pc, step_count, steps_run, run_frame >>
sec_vars == << compliance_status, active_incidents >>
perf_vars == << bandwidth_usage, firewall_rules, network_services >>
orch_vars == << agents, agents_order, step_frame >>
daily_vars == << daily_frame >>
sla_vars == << sla_compliance, sla_violations >>
rest_vars == << sla_vars, load_balancers, active_controls >>
more_vars == << sec_vars, perf_vars, orch_vars, daily_vars, rest_vars >>
ext_vars == << ticket_vars, server_vars, net_vars, bus_vars, run_vars, more_vars >>

(***************************************************************************)
(* Bounds of the model.                                                    *)
(***************************************************************************)
MaxDeployments == 2     \* deployments submitted in one run
MaxSteps == 2           \* steps of a directly submitted DeploymentConfig
MaxFindings == 6        \* findings of one scan result
MaxIncidents == 1       \* Ops incidents declared in one run
MaxChanges == 2         \* length of the Ops change queue
MaxTickets == 2         \* Ops support tickets created in one run
MaxServers == 3         \* DevOps servers provisioned in one run
MaxChecks == 3          \* health checks made in one run
MaxMessages == 3        \* messages accepted by the bus
MaxRunMessages == 2     \* messages accepted by the bus in one run of the simulation
MaxSegments == 2        \* network segments configured in one run
MaxBudget == 2          \* largest step budget max_steps of a run
MaxIterations == 2      \* loop iterations of run that are followed
MaxSecurityIncidents == 3  \* InfoSec incidents handled in one run
MaxFirewallRules == 2   \* firewall rules added in one run
MaxLoadBalancers == 2   \* load balancers configured in one run
MaxBackends == 3        \* backends of one load balancer
MaxViolations == 4      \* SLA violations recorded in one run

None == [some |-> FALSE]
Some(v) == [some |-> TRUE, value |-> v]

\* f with key k bound to v (HashMap::insert)
Insert(f, k, v) == [x \in (DOMAIN f) \cup {k} |-> IF x = k THEN v ELSE f[x]]

EmptyMap == [x \in {} |-> x]

(***************************************************************************)
(* Agent records.  Agent::new draws a fresh Uuid for each agent.           *)
(***************************************************************************)
DevOpsAgentId == 101
InfoSecAgentId == 102
OpsAgentId == 103
NetworkingAgentId == 104

DevOpsAgentRecord == [id |-> DevOpsAgentId, department |-> "DevOps"]
InfoSecAgentRecord == [id |-> InfoSecAgentId, department |-> "InfoSec"]
OpsAgentRecord == [id |-> OpsAgentId, department |-> "Ops"]
NetworkingAgentRecord == [id |-> NetworkingAgentId, department |-> "Networking"]

(***************************************************************************)
(* DevOps                                                                  *)
(***************************************************************************)
DeploymentStatus == {"Pending", "InProgress", "Success", "Failed", "RolledBack"}
StepStatus == {"Pending", "Running", "Success", "Failed", "Skipped"}

DeploymentIds == 1..MaxDeployments
ProjectIds == {1, 2}
Environments == {"staging", "production"}

DeploymentStep(name, command, timeout_seconds) ==
    [name |-> name, command |-> command, timeout_seconds |-> timeout_seconds,
     status |-> "Pending", output |-> None, error |-> None]

\* the step list process_message builds for a deploy_request
RequestSteps ==
    << DeploymentStep("Build", "cargo build --release", 300),
       DeploymentStep("Test", "cargo test", 600),
       DeploymentStep("Deploy", "./deploy.sh", 300) >>

\* step lists a caller of deploy_application submits: 0..MaxSteps steps
CallerStep(i) == DeploymentStep(<<"step", i>>, <<"cmd", i>>, 60 * i)
CallerSteps(n) == [i \in 1..n |-> CallerStep(i)]
StepLists == {CallerSteps(n) : n \in 0..MaxSteps}

DeploymentConfigs ==
    [project_id : ProjectIds, environment : Environments, steps : StepLists]

\* variant: the cursor starts at 1 instead of 0
NewDeployment_CursorAtOne(deployment_id, deployment_config) ==
    [id |-> deployment_id,
     project_id |-> deployment_config.project_id,
     environment |-> deployment_config.environment,
     status |-> "Pending",
     steps |-> deployment_config.steps,
     current_step |-> 1]

\* the Deployment record deploy_application builds
NewDeployment(deployment_id, deployment_config) ==
    [id |-> deployment_id,
     project_id |-> deployment_config.project_id,
     environment |-> deployment_config.environment,
     status |-> "Pending",
     steps |-> deployment_config.steps,
     current_step |-> 0]

\* variant: the task marks its own record RolledBack
execute_deployment_effect_RollsBack(deployment_id, agent, deployments) ==
    [deployments EXCEPT ![deployment_id].status = "RolledBack"]

\* variant: the task marks every record of the map successful
execute_deployment_effect_MarksAll(deployment_id, agent, deployments) ==
    [d \in DOMAIN deployments |-> [deployments[d] EXCEPT !.status = "Success"]]

\* execute_deployment(deployment_id, agent): the detached task receives the id
\* and a clone of the Agent record; it prints and writes nothing.  The operator
\* gives the deployment map after the task has run.
execute_deployment_effect(deployment_id, agent, deployments) ==
    deployments

\* variant: the record is stored with an empty step list
InsertDeployment_DropsSteps(deployments, deployment_id, deployment_config) ==
    Insert(deployments, deployment_id,
           [NewDeployment(deployment_id, deployment_config) EXCEPT !.steps = << >>])

\* self.active_deployments.insert(deployment_id, deployment)
InsertDeployment(deployments, deployment_id, deployment_config) ==
    Insert(deployments, deployment_id, NewDeployment(deployment_id, deployment_config))

\* deploy_application up to and including tokio::spawn: the record is inserted
\* under a fresh Uuid and the detached task exists.
deploy_application_spawn(deployment_config, caller) ==
    /\ dev_pc = "idle"
    /\ \E deployment_id \in DeploymentIds \ DOMAIN active_deployments :
          /\ active_deployments' =
                InsertDeployment(active_deployments, deployment_id, deployment_config)
          /\ tasks' = Insert(tasks, deployment_id, "spawned")
          /\ dev_frame' = [deployment_id |-> deployment_id,
                           deployment_config |-> deployment_config,
                           caller |-> caller,
                           before |-> active_deployments]
    /\ dev_pc' = "deploying"
    /\ UNCHANGED << dev_ret, infosec_vars, ops_vars, ext_vars >>

\* deploy_application from the println to Ok(deployment_id)
deploy_application_return ==
    /\ dev_pc = "deploying"
    /\ dev_pc' = "idle"
    /\ dev_ret' = [op |-> dev_frame.caller, ok |-> TRUE,
                   value |-> IF dev_frame.caller = "deploy_application"
                             THEN Some(dev_frame.deployment_id) ELSE None,
                   deployed |-> Some(dev_frame.deployment_id)]
    /\ dev_frame' = None
    /\ UNCHANGED << active_deployments, tasks, infosec_vars, ops_vars, ext_vars >>

\* the detached task runs execute_deployment to completion
execute_deployment(deployment_id) ==
    /\ deployment_id \in DOMAIN tasks
    /\ tasks[deployment_id] = "spawned"
    /\ active_deployments' =
          execute_deployment_effect(deployment_id, DevOpsAgentRecord, active_deployments)
    /\ tasks' = [tasks EXCEPT ![deployment_id] = "finished"]
    /\ UNCHANGED << dev_pc, dev_frame, dev_ret, infosec_vars, ops_vars, ext_vars >>

\* the runtime is dropped once the driver's call has returned (the end of a
\* block_on or of a test body): nothing awaits the JoinHandle of the detached
\* task, and tokio drops, unrun, every task that has not run by then
runtime_shutdown ==
    /\ dev_pc = "idle"
    /\ \E d \in DOMAIN tasks : tasks[d] = "spawned"
    /\ tasks' = [d \in DOMAIN tasks |->
                    IF tasks[d] = "spawned" THEN "dropped" ELSE tasks[d]]
    /\ UNCHANGED << active_deployments, dev_pc, dev_frame, dev_ret,
                    infosec_vars, ops_vars, ext_vars >>

\* Message metadata: the HashMap<String, String> lookups process_message makes.
\* A string is either the text of a Uuid or some other text.
UuidText(p) == [uuid |-> TRUE, v |-> p]
PlainText == [uuid |-> FALSE, v |-> 0]

\* Uuid::parse_str
ParseUuid(text) == IF text.uuid THEN [ok |-> TRUE, value |-> text.v] ELSE [ok |-> FALSE]

DeployRequestMetadata ==
    [project_id : {None, Some(PlainText)} \cup {Some(UuidText(p)) : p \in ProjectIds},
     environment : {None} \cup {Some(e) : e \in Environments}]

\* the DeploymentConfig process_message builds for a deploy_request
RequestConfig(metadata) ==
    [project_id |-> ParseUuid(metadata.project_id.value).value,
     environment |-> IF metadata.environment.some
                     THEN metadata.environment.value ELSE "staging",
     steps |-> RequestSteps]

\* a deploy_request names a project when project_id is present and parses
NamesProject(metadata) ==
    /\ metadata.project_id.some
    /\ ParseUuid(metadata.project_id.value).ok

\* deploy_application called by a driver
deploy_application(deployment_config) ==
    deploy_application_spawn(deployment_config, "deploy_application")

\* process_message, "deploy_request" arm, project_id present and well formed:
\* the handler calls deploy_application and returns Ok(()) after it
process_message_deploy_request(metadata) ==
    /\ NamesProject(metadata)
    /\ deploy_application_spawn(RequestConfig(metadata), "process_message")

\* process_message, "deploy_request" arm, project_id absent or not a Uuid:
\* both if-lets fall through and the handler returns Ok(())
process_message_deploy_request_skipped(metadata) ==
    /\ dev_pc = "idle"
    /\ ~NamesProject(metadata)
    /\ dev_ret' = [op |-> "process_message", ok |-> TRUE, value |-> None,
                   deployed |-> None]
    /\ UNCHANGED << active_deployments, tasks, dev_pc, dev_frame, infosec_vars, ops_vars, ext_vars >>

DevOpsInit ==
    /\ active_deployments = EmptyMap
    /\ tasks = EmptyMap
    /\ dev_pc = "idle"
    /\ dev_frame = None
    /\ dev_ret = [op |-> "none", ok |-> TRUE, value |-> None, deployed |-> None]

DevOpsNext ==
    \/ \E deployment_config \in DeploymentConfigs :
          deploy_application(deployment_config)
    \/ \E metadata \in DeployRequestMetadata :
          process_message_deploy_request(metadata)
    \/ \E metadata \in DeployRequestMetadata :
          process_message_deploy_request_skipped(metadata)
    \/ deploy_application_return
    \/ \E deployment_id \in DeploymentIds : execute_deployment(deployment_id)
    \/ runtime_shutdown

(***************************************************************************)
(* Properties of the DevOps deployment records.                            *)
(***************************************************************************)
\* the cursor of every deployment lies within its step list
CurrentStepInRange ==
    \A d \in DOMAIN active_deployments :
        active_deployments[d].current_step \in 0..Len(active_deployments[d].steps)

\* no step removes a deployment or moves its cursor back
CurrentStepMonotone ==
    \A d \in DOMAIN active_deployments :
        /\ d \in DOMAIN active_deployments'
        /\ active_deployments'[d].current_step >= active_deployments[d].current_step

\* C1: for every deployment in active_deployments, in every reachable state,
\* current_step is in [0, number of steps], and it never decreases from one
\* state to the next.
C1_CurrentStepBounded == []CurrentStepInRange /\ [][CurrentStepMonotone]_vars

\* C1 witness: two deployments are held, one with an empty step list and one
\* with steps, and a detached task has run.
C1_Witness ==
    /\ \E d \in DOMAIN active_deployments : Len(active_deployments[d].steps) = 0
    /\ \E d \in DOMAIN active_deployments : Len(active_deployments[d].steps) > 0
    /\ \E d \in DOMAIN tasks : tasks[d] = "finished"

\* C2: a deployment is RolledBack in the next state only if it was Failed (or
\* already RolledBack) in the current one: no step enters RolledBack from
\* Pending, InProgress or Success, and no record is created RolledBack.
C2_RolledBackOnlyFromFailed ==
    [][\A d \in DOMAIN active_deployments' :
          active_deployments'[d].status = "RolledBack"
             => /\ d \in DOMAIN active_deployments
                /\ active_deployments[d].status \in {"Failed", "RolledBack"}]_vars

\* C2 witness: every submitted deployment has had its detached execution run
\* to completion and none of them is RolledBack.
C2_Witness ==
    /\ DOMAIN active_deployments = DeploymentIds
    /\ \A d \in DeploymentIds : tasks[d] = "finished"
    /\ \A d \in DeploymentIds : active_deployments[d].status # "RolledBack"

\* C3: when deploy_application returns it returns Ok(id) of a record that is
\* the one new entry of active_deployments, with status Pending, current_step 0
\* and the submitted steps, whatever the detached task has done meanwhile; the
\* records held before the call are as they were.
C3_ReturnsPendingRecord ==
    [][(dev_pc = "deploying" /\ dev_pc' = "idle")
         => LET id == dev_frame.deployment_id
                before == dev_frame.before
            IN  /\ dev_ret'.ok
                /\ dev_ret'.deployed = Some(id)
                /\ id \notin DOMAIN before
                /\ DOMAIN active_deployments' = DOMAIN before \cup {id}
                /\ \A e \in DOMAIN before : active_deployments'[e] = before[e]
                /\ active_deployments'[id].status = "Pending"
                /\ active_deployments'[id].current_step = 0
                /\ active_deployments'[id].steps = dev_frame.deployment_config.steps
                /\ active_deployments'[id].project_id =
                      dev_frame.deployment_config.project_id]_vars

\* C3 witness: a deploy_application call with an empty step list is about to
\* return and its detached task has already finished.
C3_Witness ==
    /\ dev_pc = "deploying"
    /\ dev_frame.caller = "deploy_application"
    /\ dev_frame.deployment_config.steps = << >>
    /\ tasks[dev_frame.deployment_id] = "finished"

\* C4: under fair scheduling of the detached task, every deployment held in
\* active_deployments eventually has status Success or Failed.
C4_EventuallyNotPending ==
    \A d \in DeploymentIds :
        [](d \in DOMAIN active_deployments
             => <>(/\ d \in DOMAIN active_deployments
                   /\ active_deployments[d].status \in {"Success", "Failed"}))

\* C5: a deployment record changes only in the step of its own detached task,
\* a record appears only by the driver's insert under the id of the call in
\* progress, and no record disappears: no task touches another record and no
\* driver update is lost.
C5_ExclusiveUpdate ==
    [][/\ \A e \in DOMAIN active_deployments :
             /\ e \in DOMAIN active_deployments'
             /\ active_deployments'[e] # active_deployments[e]
                   => (tasks[e] = "spawned" /\ tasks'[e] = "finished")
       /\ \A e \in DOMAIN active_deployments' \ DOMAIN active_deployments :
             /\ dev_pc = "idle" /\ dev_pc' = "deploying"
             /\ dev_frame'.deployment_id = e]_vars

\* C5 witness: while a deploy_application call is in progress the task of an
\* earlier deployment has finished and the task of the new one is still pending.
C5_Witness ==
    /\ dev_pc = "deploying"
    /\ tasks[dev_frame.deployment_id] = "spawned"
    /\ \E e \in DOMAIN tasks : e # dev_frame.deployment_id /\ tasks[e] = "finished"

(***************************************************************************)
(* InfoSec                                                                 *)
(***************************************************************************)
Severities == {"Critical", "High", "Medium", "Low", "Info"}
SeverityRank(sev) ==
    CASE sev = "Critical" -> 1 [] sev = "High" -> 2 [] sev = "Medium" -> 3
      [] sev = "Low" -> 4 [] sev = "Info" -> 5

Targets == {"web-portal", "database"}

\* integer conversions of the score computation.  The counts are u32 and the
\* penalty is cast to i32; with at most MaxFindings findings neither the u32
\* sum nor the cast leaves its range, so only the final cast to u8 is modelled.
AsU8(x) == x % 256
MaxI32(a, b) == IF a >= b THEN a ELSE b

\* a Vulnerability: its severity and affected_system (title, description and
\* remediation are the same fixed texts in every finding)
Vulnerability(severity, target) == << severity, target >>
VulnerabilitySeverity(vulnerability) == vulnerability[1]

\* the finding list perform_vulnerability_scan simulates: one Medium finding
SimulatedVulnerabilities(target) == << Vulnerability("Medium", target) >>

ScanResults(target, vulnerabilities) ==
    [target |-> target,
     vulnerabilities_found |-> Len(vulnerabilities),
     vulnerabilities |-> vulnerabilities,
     scan_status |-> "Completed"]

\* scan_results.vulnerabilities.iter().filter(|v| v.severity == sev).count() as u32
CountSeverity(vulnerabilities, sev) ==
    Cardinality({i \in 1..Len(vulnerabilities) : VulnerabilitySeverity(vulnerabilities[i]) = sev})

\* variant: the new findings are added to the counts already stored
VulnerabilityCounts_Accumulate(previous, scan_results) ==
    [critical |-> previous.critical + CountSeverity(scan_results.vulnerabilities, "Critical"),
     high |-> previous.high + CountSeverity(scan_results.vulnerabilities, "High"),
     medium |-> previous.medium + CountSeverity(scan_results.vulnerabilities, "Medium"),
     low |-> previous.low + CountSeverity(scan_results.vulnerabilities, "Low"),
     info |-> previous.info + CountSeverity(scan_results.vulnerabilities, "Info")]

\* the VulnerabilityCounts update_security_posture stores: the counts of the
\* scan's findings replace the previous counts
VulnerabilityCounts(previous, scan_results) ==
    [critical |-> CountSeverity(scan_results.vulnerabilities, "Critical"),
     high |-> CountSeverity(scan_results.vulnerabilities, "High"),
     medium |-> CountSeverity(scan_results.vulnerabilities, "Medium"),
     low |-> CountSeverity(scan_results.vulnerabilities, "Low"),
     info |-> CountSeverity(scan_results.vulnerabilities, "Info")]

\* variant: a High finding weighs as much as a Medium one
vuln_penalty_HighAsMedium(vulnerabilities) ==
    vulnerabilities.critical * 20 + vulnerabilities.high * 5 + vulnerabilities.medium * 5

\* (critical * 20 + high * 10 + medium * 5) as i32
vuln_penalty(vulnerabilities) ==
    vulnerabilities.critical * 20 + vulnerabilities.high * 10 + vulnerabilities.medium * 5

\* variant: the difference is not clamped at 0 before the cast
overall_score_Unclamped(penalty) == AsU8(100 - penalty)

\* (100i32 - vuln_penalty).max(0) as u8
overall_score(penalty) == AsU8(MaxI32(100 - penalty, 0))

\* the posture update_security_posture leaves
UpdatedPosture(posture, scan_results) ==
    LET counts == VulnerabilityCounts(posture.vulnerabilities, scan_results)
    IN  [posture EXCEPT !.vulnerabilities = counts,
                        !.overall_score = overall_score(vuln_penalty(counts)),
                        !.last_assessment = "scan"]

\* SecurityPosture::default
DefaultSecurityPosture ==
    [overall_score |-> 85,
     vulnerabilities |-> [critical |-> 0, high |-> 2, medium |-> 5, low |-> 12, info |-> 25],
     last_assessment |-> "construction"]

\* perform_vulnerability_scan(target): the results with the one simulated
\* finding are built, update_security_posture is awaited, Ok(results) is
\* returned
perform_vulnerability_scan(target) ==
    LET results == ScanResults(target, SimulatedVulnerabilities(target))
    IN  /\ security_posture' = UpdatedPosture(security_posture, results)
        /\ infosec_ret' = [op |-> "perform_vulnerability_scan", ok |-> TRUE,
                           value |-> Some(results)]
        /\ UNCHANGED << devops_vars, ops_vars, ext_vars >>

\* update_security_posture(scan_results), the private function the scan
\* awaits, on its own: the posture is recomputed from the results, Ok(())
update_security_posture(scan_results) ==
    /\ security_posture' = UpdatedPosture(security_posture, scan_results)
    /\ infosec_ret' = [op |-> "update_security_posture", ok |-> TRUE,
                       value |-> None]
    /\ UNCHANGED << devops_vars, ops_vars, ext_vars >>

\* process_message, "vulnerability_scan" arm: scans when metadata has a target
process_message_vulnerability_scan(target) ==
    IF target.some
    THEN /\ security_posture' =
               UpdatedPosture(security_posture,
                              ScanResults(target.value, SimulatedVulnerabilities(target.value)))
         /\ infosec_ret' = [op |-> "process_message", ok |-> TRUE, value |-> None]
         /\ UNCHANGED << devops_vars, ops_vars, ext_vars >>
    ELSE /\ infosec_ret' = [op |-> "process_message", ok |-> TRUE, value |-> None]
         /\ UNCHANGED << security_posture, devops_vars, ops_vars, ext_vars >>

\* finding lists of at most MaxFindings findings, one list for every
\* combination of severity counts (listed by decreasing severity)
SeverityLists(n) ==
    {sevs \in [1..n -> Severities] :
        \A i \in 1..n : \A j \in 1..n :
            i < j => SeverityRank(sevs[i]) <= SeverityRank(sevs[j])}

FindingLists(target) ==
    UNION {{[i \in 1..n |-> Vulnerability(sevs[i], target)] : sevs \in SeverityLists(n)} :
             n \in 0..MaxFindings}

InfoSecInit ==
    /\ security_posture = DefaultSecurityPosture
    /\ infosec_ret = [op |-> "none", ok |-> TRUE, value |-> None]

InfoSecPostureNext ==
    \/ \E target \in Targets : perform_vulnerability_scan(target)
    \/ \E target \in {None} \cup {Some(t) : t \in Targets} :
          process_message_vulnerability_scan(target)
    \* the score computation on the results of any finding list, the empty one
    \* included: perform_vulnerability_scan itself only ever passes its one
    \* Medium finding
    \/ \E target \in Targets : \E vulnerabilities \in FindingLists(target) :
          update_security_posture(ScanResults(target, vulnerabilities))

(***************************************************************************)
(* Properties of the InfoSec security posture.                             *)
(***************************************************************************)
\* the score the specification derives from vulnerability counts
PostureFormula(vulnerabilities) ==
    LET penalty == 20 * vulnerabilities.critical + 10 * vulnerabilities.high
                   + 5 * vulnerabilities.medium
    IN  IF penalty >= 100 THEN 0 ELSE 100 - penalty

\* every scan that has returned reports exactly one finding, a Medium one:
\* no call of perform_vulnerability_scan yields zero findings
ScanAlwaysReportsOneMedium ==
    infosec_ret.op = "perform_vulnerability_scan"
        => /\ infosec_ret.value.value.vulnerabilities_found = 1
           /\ VulnerabilitySeverity(infosec_ret.value.value.vulnerabilities[1]) = "Medium"
           /\ security_posture.vulnerabilities =
                 [critical |-> 0, high |-> 0, medium |-> 1, low |-> 0, info |-> 0]
           /\ security_posture.overall_score = 95

\* C6: once a vulnerability scan has returned Ok, overall_score equals
\* max(0, 100 - (20*critical + 10*high + 5*medium)) for the counts the posture
\* stores after that scan.
C6_ScoreIsFormulaAfterScan ==
    security_posture.last_assessment = "scan"
        => security_posture.overall_score = PostureFormula(security_posture.vulnerabilities)

\* C6 witness: a scan has returned Ok with its Medium finding and the score is
\* the one of the stored counts, 95.
C6_Witness ==
    /\ security_posture.last_assessment = "scan"
    /\ infosec_ret.op = "perform_vulnerability_scan"
    /\ infosec_ret.ok
    /\ security_posture.vulnerabilities.medium = 1
    /\ security_posture.overall_score = 95

\* the clamped case of the score computation: the counts stored weigh more
\* than 100 and the score is 0
ClampedScoreAfterUpdate ==
    /\ security_posture.last_assessment = "scan"
    /\ infosec_ret.op = "update_security_posture"
    /\ vuln_penalty(security_posture.vulnerabilities) > 100
    /\ security_posture.overall_score = 0

\* C7: overall_score is in [0, 100] in every reachable state, and when a scan
\* replaces computed counts by counts that are each at least as large in
\* critical, high and medium, the new score is at most the old one.
C7_ScoreBoundedAndMonotone ==
    /\ [](security_posture.overall_score \in 0..100)
    /\ [][(/\ security_posture.last_assessment = "scan"
            /\ security_posture'.vulnerabilities.critical >= security_posture.vulnerabilities.critical
            /\ security_posture'.vulnerabilities.high >= security_posture.vulnerabilities.high
            /\ security_posture'.vulnerabilities.medium >= security_posture.vulnerabilities.medium)
              => security_posture'.overall_score <= security_posture.overall_score]_vars

\* C7 witness: a computed score strictly inside (0, 100) with critical, high
\* and medium findings all present.
C7_Witness ==
    /\ security_posture.last_assessment = "scan"
    /\ security_posture.vulnerabilities.critical > 0
    /\ security_posture.vulnerabilities.high > 0
    /\ security_posture.vulnerabilities.medium > 0
    /\ security_posture.overall_score \in 1..99

\* update_security_posture on results without findings: every stored
\* vulnerability count becomes 0 and overall_score 100, whatever counts were
\* stored before.
EmptyResultsResetPosture ==
    [][(/\ infosec_ret'.op = "update_security_posture"
        /\ security_posture'.vulnerabilities.critical = 0
        /\ security_posture'.vulnerabilities.high = 0
        /\ security_posture'.vulnerabilities.medium = 0)
          => security_posture'.overall_score = 100]_vars

(***************************************************************************)
(* Ops: incidents                                                          *)
(***************************************************************************)
IncidentStatus == {"Open", "Investigating", "Mitigating", "Resolved", "PostMortem", "Closed"}
ChangeStatus == {"Draft", "PendingApproval", "Approved", "Scheduled", "InProgress",
                 "Completed", "Failed", "Cancelled"}

\* Uuids an incident can be looked up by: one more than can be declared
IncidentIds == 1..(MaxIncidents + 1)

\* reports passed to declare_incident by a caller
IncidentReports ==
    [title : {"Outage"}, severity : {"Sev1", "Sev2"}, affected_services : {<< "web-service" >>}]

\* the report process_message builds for a declare_incident message
MessageIncidentReport(title) ==
    [title |-> IF title.some THEN title.value ELSE "System Incident",
     severity |-> "Sev3",
     affected_services |-> << "unknown" >>]

IncidentUpdates ==
    [status : IncidentStatus,
     root_cause : {None, Some("root cause")},
     resolution : {None, Some("fix")}]

\* the Incident record declare_incident builds
NewIncident(incident_id, incident_report) ==
    [id |-> incident_id,
     title |-> incident_report.title,
     severity |-> incident_report.severity,
     status |-> "Open",
     affected_services |-> incident_report.affected_services,
     root_cause |-> None,
     resolution |-> None,
     resolved_at |-> None,
     assigned_team |-> None]

\* the incident update_incident leaves: the status is overwritten, root cause
\* and resolution only when the update carries them
UpdatedIncident(incident, update) ==
    [incident EXCEPT
        !.status = update.status,
        !.root_cause = IF update.root_cause.some THEN update.root_cause ELSE @,
        !.resolution = IF update.resolution.some THEN update.resolution ELSE @,
        !.resolved_at = IF update.resolution.some THEN Some("now") ELSE @]

\* declare_incident
declare_incident_as(incident_report, op) ==
    /\ Cardinality(DOMAIN incidents) < MaxIncidents
    /\ \E incident_id \in IncidentIds \ DOMAIN incidents :
          /\ incidents' = Insert(incidents, incident_id,
                                  NewIncident(incident_id, incident_report))
          /\ ops_ret' = [op |-> op, ok |-> TRUE,
                         value |-> IF op = "declare_incident" THEN incident_id ELSE 0]
    /\ UNCHANGED << change_queue, devops_vars, infosec_vars, ext_vars >>

declare_incident(incident_report) == declare_incident_as(incident_report, "declare_incident")

\* process_message, "declare_incident" arm
process_message_declare_incident(title) ==
    declare_incident_as(MessageIncidentReport(title), "process_message")

\* update_incident
update_incident_effect(incident_id, update) ==
    IF incident_id \in DOMAIN incidents
    THEN /\ incidents' = [incidents EXCEPT
                             ![incident_id] = UpdatedIncident(@, update)]
         /\ ops_ret' = [op |-> "update_incident", ok |-> TRUE, value |-> 0]
    ELSE /\ incidents' = incidents
         /\ ops_ret' = [op |-> "update_incident", ok |-> FALSE,
                        value |-> incident_id]

update_incident(incident_id, update) ==
    /\ update_incident_effect(incident_id, update)
    /\ UNCHANGED << change_queue, devops_vars, infosec_vars, ext_vars >>

OpsIncidentsNext ==
    \/ \E incident_report \in IncidentReports : declare_incident(incident_report)
    \/ \E title \in {None, Some("Outage")} : process_message_declare_incident(title)
    \/ \E incident_id \in IncidentIds : \E update \in IncidentUpdates :
          update_incident(incident_id, update)

(***************************************************************************)
(* Ops: change queue                                                       *)
(***************************************************************************)
ChangeIds == 1..MaxChanges
Approvers == {201, 202}

\* change requests passed to submit_change_request: any id, any status
ChangeRequests ==
    [id : ChangeIds, title : {"Upgrade"}, status : ChangeStatus,
     requester : {OpsAgentId}, approver : {None}]

FindChange_DefaultsToFirst(queue, change_id) ==
    IF \E i \in 1..Len(queue) : queue[i].id = change_id
    THEN CHOOSE i \in 1..Len(queue) :
            /\ queue[i].id = change_id
            /\ \A j \in 1..(i - 1) : queue[j].id # change_id
    ELSE IF Len(queue) > 0 THEN 1 ELSE 0

\* index of the first request of the queue with the id, 0 when there is none
\* (change_queue.iter_mut().find(|c| c.id == change_id))
FindChange(queue, change_id) ==
    IF \E i \in 1..Len(queue) : queue[i].id = change_id
    THEN CHOOSE i \in 1..Len(queue) :
            /\ queue[i].id = change_id
            /\ \A j \in 1..(i - 1) : queue[j].id # change_id
    ELSE 0

ApprovedChange_KeepsApprover(change, approver) ==
    [change EXCEPT !.status = "Approved"]

\* the request approve_change leaves: Approved, with the approver recorded
ApprovedChange(change, approver) ==
    [change EXCEPT !.status = "Approved", !.approver = Some(approver)]

\* submit_change_request
submit_change_request(change_request) ==
    /\ Len(change_queue) < MaxChanges
    /\ change_queue' = Append(change_queue, change_request)
    /\ ops_ret' = [op |-> "submit_change_request", ok |-> TRUE,
                   value |-> change_request.id]
    /\ UNCHANGED << incidents, devops_vars, infosec_vars, ext_vars >>

\* approve_change
approve_change(change_id, approver) ==
    /\ LET i == FindChange(change_queue, change_id)
       IN  IF i # 0
           THEN /\ change_queue' = [change_queue EXCEPT
                                       ![i] = ApprovedChange(@, approver)]
                /\ ops_ret' = [op |-> "approve_change", ok |-> TRUE, value |-> 0]
           ELSE /\ change_queue' = change_queue
                /\ ops_ret' = [op |-> "approve_change", ok |-> FALSE,
                               value |-> change_id]
    /\ UNCHANGED << incidents, devops_vars, infosec_vars, ext_vars >>

OpsChangesNext ==
    \/ \E change_request \in ChangeRequests : submit_change_request(change_request)
    \/ \E change_id \in ChangeIds : \E approver \in Approvers :
          approve_change(change_id, approver)

(***************************************************************************)
(* Properties of the Ops lifecycles.                                       *)
(***************************************************************************)
\* C9: an Ops incident whose status is Resolved or Closed has the same status
\* in the next state, whatever operation is performed.
C9_TerminalIncidentFrozen ==
    [][\A d \in DOMAIN incidents :
          incidents[d].status \in {"Resolved", "Closed"}
             => /\ d \in DOMAIN incidents'
                /\ incidents'[d].status = incidents[d].status]_vars

\* C10: a change request of the queue whose status is Completed or Cancelled
\* has the same status in the next state, whatever operation is performed.
C10_TerminalChangeFrozen ==
    [][\A i \in 1..Len(change_queue) :
          change_queue[i].status \in {"Completed", "Cancelled"}
             => /\ i <= Len(change_queue')
                /\ change_queue'[i].status = change_queue[i].status]_vars

\* the statuses a change request may take next in the lifecycle Draft,
\* PendingApproval, Approved, Scheduled, InProgress, then Completed, Failed
\* or Cancelled
ChangeSuccessors(status) ==
    CASE status = "Draft" -> {"PendingApproval"}
      [] status = "PendingApproval" -> {"Approved"}
      [] status = "Approved" -> {"Scheduled"}
      [] status = "Scheduled" -> {"InProgress"}
      [] status = "InProgress" -> {"Completed", "Failed", "Cancelled"}
      [] OTHER -> {}

\* C25: a change request enters the queue as Draft or PendingApproval and its
\* status only moves along the lifecycle order; in particular it becomes
\* Approved only from PendingApproval.
C25_ChangeLifecycleOrder ==
    [][/\ \A i \in 1..Len(change_queue) :
             /\ i <= Len(change_queue')
             /\ \/ change_queue'[i].status = change_queue[i].status
                \/ change_queue'[i].status \in ChangeSuccessors(change_queue[i].status)
       /\ \A i \in (Len(change_queue) + 1)..Len(change_queue') :
             change_queue'[i].status \in {"Draft", "PendingApproval"}]_vars

\* C12: approve_change(id, A) with the id of a submitted request returns Ok,
\* the request that id identifies (the first of the queue carrying it) is
\* Approved with approver A, and the queue's length and order and every other
\* request are unchanged.
C12_ApproveSetsApprovedAndApprover ==
    [][\A change_id \in ChangeIds : \A approver \in Approvers :
          (/\ approve_change(change_id, approver)
           /\ \E i \in 1..Len(change_queue) : change_queue[i].id = change_id)
          => /\ ops_ret'.op = "approve_change" /\ ops_ret'.ok
             /\ Len(change_queue') = Len(change_queue)
             /\ \E i \in 1..Len(change_queue) :
                   /\ change_queue[i].id = change_id
                   /\ \A j \in 1..(i - 1) : change_queue[j].id # change_id
                   /\ change_queue'[i] =
                         [change_queue[i] EXCEPT !.status = "Approved",
                                                 !.approver = Some(approver)]
                   /\ \A j \in (1..Len(change_queue)) \ {i} :
                         change_queue'[j] = change_queue[j]]_vars

C12_Witness ==
    /\ ops_ret.op = "approve_change" /\ ops_ret.ok
    /\ Len(change_queue) = 2
    /\ change_queue[1].id # change_queue[2].id
    /\ change_queue[1].status = "PendingApproval" /\ change_queue[1].approver = None
    /\ change_queue[2].status = "Approved" /\ change_queue[2].approver = Some(202)

\* C13: approve_change with an id that matches no request of the queue returns
\* ChangeNotFound carrying that id and leaves the change queue and every other
\* part of the Ops agent's state as it was.
C13_ApproveUnknownChangeNotFound ==
    [][\A change_id \in ChangeIds : \A approver \in Approvers :
          (/\ approve_change(change_id, approver)
           /\ \A i \in 1..Len(change_queue) : change_queue[i].id # change_id)
          => /\ ops_ret' = [op |-> "approve_change", ok |-> FALSE, value |-> change_id]
             /\ change_queue' = change_queue
             /\ incidents' = incidents
             /\ support_tickets' = support_tickets]_vars

C13_Witness ==
    /\ ops_ret = [op |-> "approve_change", ok |-> FALSE, value |-> 2]
    /\ Len(change_queue) = 2
    /\ \A i \in 1..2 : change_queue[i].id = 1

(***************************************************************************)
(* Ops: support tickets                                                    *)
(***************************************************************************)
TicketStatus == {"Open", "InProgress", "PendingCustomer", "Resolved", "Closed"}
TicketIds == 1..MaxTickets

\* requests passed to create_ticket by a caller
TicketRequests ==
    [title : {"Login fails"}, priority : {"Normal", "High"},
     customer_id : {None, Some("customer123")}, tags : {<< "test" >>}]

\* metadata of a create_ticket message: title and customer_id are optional
TicketMetadata ==
    [title : {None, Some("Website Performance Issue")},
     customer_id : {None, Some("cust-7")}]

\* the request process_message builds for a create_ticket message
MessageTicketRequest(metadata) ==
    [title |-> IF metadata.title.some THEN metadata.title.value ELSE "Support Request",
     priority |-> "Normal",
     customer_id |-> metadata.customer_id,
     tags |-> << >>]

\* the SupportTicket record create_ticket inserts
NewTicket(ticket_id, ticket_request) ==
    [id |-> ticket_id,
     title |-> ticket_request.title,
     priority |-> ticket_request.priority,
     status |-> "Open",
     customer_id |-> ticket_request.customer_id,
     assigned_to |-> None,
     resolution |-> None,
     tags |-> ticket_request.tags]

AssignedTicket_StaysOpen(ticket, agent_id) ==
    [ticket EXCEPT !.assigned_to = Some(agent_id)]

\* the ticket assign_ticket leaves: assigned to the agent itself, InProgress
AssignedTicket(ticket, agent_id) ==
    [ticket EXCEPT !.assigned_to = Some(agent_id), !.status = "InProgress"]

\* assign_ticket: the tickets after the call (an absent id changes nothing)
assign_ticket(tickets, ticket_id, agent) ==
    IF ticket_id \in DOMAIN tickets
    THEN [tickets EXCEPT ![ticket_id] = AssignedTicket(@, agent.id)]
    ELSE tickets

\* create_ticket: insert the Open ticket under a fresh Uuid, then assign_ticket
create_ticket_as(ticket_request, op, message) ==
    /\ Cardinality(DOMAIN support_tickets) < MaxTickets
    /\ \E ticket_id \in TicketIds \ DOMAIN support_tickets :
          /\ support_tickets' =
                assign_ticket(Insert(support_tickets, ticket_id,
                                     NewTicket(ticket_id, ticket_request)),
                              ticket_id, OpsAgentRecord)
          /\ ops_ret' = [op |-> op, ok |-> TRUE,
                         value |-> IF op = "create_ticket" THEN ticket_id ELSE 0]
    /\ ops_msg' = message
    /\ UNCHANGED << incidents, change_queue, devops_vars, infosec_vars,
                    server_vars, net_vars, bus_vars, run_vars, more_vars >>

create_ticket(ticket_request) == create_ticket_as(ticket_request, "create_ticket", None)

\* process_message, "create_ticket" arm
process_message_create_ticket(metadata) ==
    create_ticket_as(MessageTicketRequest(metadata), "process_message",
                     Some([message_type |-> "create_ticket", metadata |-> metadata]))

OpsTicketsNext ==
    \/ \E ticket_request \in TicketRequests : create_ticket(ticket_request)
    \/ \E metadata \in TicketMetadata : process_message_create_ticket(metadata)

\* C11: every ticket creation (create_ticket or a create_ticket message) adds
\* exactly one ticket, which on return is InProgress and assigned to the
\* handling agent's own id; a message without title and customer_id gives the
\* title "Support Request" and no customer_id; existing tickets are unchanged.
C11_TicketCreatedAssigned ==
    [][(ops_ret'.op \in {"create_ticket", "process_message"} /\ vars' # vars)
        => /\ ops_ret'.ok
           /\ \E t \in (DOMAIN support_tickets') \ (DOMAIN support_tickets) :
                 /\ DOMAIN support_tickets' = (DOMAIN support_tickets) \cup {t}
                 /\ support_tickets'[t].id = t
                 /\ support_tickets'[t].status = "InProgress"
                 /\ support_tickets'[t].assigned_to = Some(OpsAgentId)
                 /\ (ops_ret'.op = "create_ticket" => ops_ret'.value = t)
                 /\ (/\ ops_msg'.some
                     /\ ~ops_msg'.value.metadata.title.some
                     /\ ~ops_msg'.value.metadata.customer_id.some)
                       => /\ support_tickets'[t].title = "Support Request"
                          /\ ~support_tickets'[t].customer_id.some
           /\ \A d \in DOMAIN support_tickets :
                 support_tickets'[d] = support_tickets[d]]_vars

C11_Witness ==
    /\ ops_msg.some
    /\ ~ops_msg.value.metadata.title.some
    /\ ~ops_msg.value.metadata.customer_id.some
    /\ Cardinality(DOMAIN support_tickets) = 2
    /\ \E t \in DOMAIN support_tickets :
          /\ support_tickets[t].title = "Support Request"
          /\ support_tickets[t].status = "InProgress"
          /\ support_tickets[t].assigned_to = Some(OpsAgentId)

TicketInit ==
    /\ support_tickets = EmptyMap
    /\ ops_msg = None

(***************************************************************************)
(* DevOps: servers                                                         *)
(***************************************************************************)
ServerState == {"Online", "Offline", "Degraded", "Maintenance", "Critical"}
ServerIds == 1..MaxServers

\* a hostname is the sequence of the parts format! concatenates
BaseHostname == << "web-01" >>
ServerConfig(hostname) == [hostname |-> hostname, cpu_cores |-> 4, memory_gb |-> 8, disk_gb |-> 100]
ServerConfigs == {ServerConfig(BaseHostname)}

MinF32(a, b) == IF a <= b THEN a ELSE b

\* the ServerStatus record provision_server inserts
NewServer(server_id, server_config) ==
    [id |-> server_id,
     hostname |-> server_config.hostname,
     status |-> "Online",
     cpu_usage |-> 0,
     memory_usage |-> 0,
     disk_usage |-> 0,
     uptime |-> 0]

\* format!("srv-{}", Uuid::new_v4().simple()): a key no server has yet
FreshServerId(server_map) == CHOOSE id \in ServerIds \ DOMAIN server_map :
                                \A other \in ServerIds \ DOMAIN server_map : id <= other

\* provision_server: the server map after the call
ProvisionedServers(server_map, server_config) ==
    Insert(server_map, FreshServerId(server_map),
           NewServer(FreshServerId(server_map), server_config))

\* provision_server
provision_server(server_config) ==
    /\ Cardinality(DOMAIN servers) < MaxServers
    /\ servers' = ProvisionedServers(servers, server_config)
    /\ infra_ret' = [op |-> "provision_server", ok |-> TRUE,
                     value |-> NewServer(FreshServerId(servers), server_config)]
    /\ UNCHANGED << devops_vars, infosec_vars, ops_vars,
                    ticket_vars, net_vars, bus_vars, run_vars, more_vars >>

HealthStatus_CriticalAtNinety(cpu_usage, memory_usage) ==
    IF cpu_usage >= 90 \/ memory_usage >= 90 THEN "Critical"
    ELSE IF cpu_usage > 75 \/ memory_usage > 75 THEN "Degraded"
    ELSE "Online"

\* the status check_server_health derives from the usage just sampled
HealthStatus(cpu_usage, memory_usage) ==
    IF cpu_usage > 90 \/ memory_usage > 90 THEN "Critical"
    ELSE IF cpu_usage > 75 \/ memory_usage > 75 THEN "Degraded"
    ELSE "Online"

\* the server check_server_health leaves, for the three values of
\* rand::random::<f32>() * 100.0 it draws
CheckedServer(server, cpu_raw, memory_raw, disk_raw) ==
    [server EXCEPT
        !.cpu_usage = MinF32(cpu_raw, 95),
        !.memory_usage = MinF32(memory_raw, 90),
        !.disk_usage = MinF32(disk_raw, 85),
        !.uptime = @ + 300,
        !.status = HealthStatus(MinF32(cpu_raw, 95), MinF32(memory_raw, 90))]

\* health checks made so far: every check adds 300 to the uptime of its server
RECURSIVE ChecksDone(_, _)
ChecksDone(server_map, ids) ==
    IF ids = {} THEN 0
    ELSE LET id == CHOOSE x \in ids : TRUE
         IN  (server_map[id].uptime \div 300) + ChecksDone(server_map, ids \ {id})

\* self.infrastructure_state.servers.get_mut(server_id) is Some
HasServer(server_map, server_id) == server_id \in DOMAIN server_map

ServerNotFound_Ok(server_id) ==
    [op |-> "check_server_health", ok |-> TRUE, value |-> server_id]

\* Err(DevOpsError::ServerNotFound(server_id.to_string()))
ServerNotFound(server_id) ==
    [op |-> "check_server_health", ok |-> FALSE, value |-> server_id]

\* check_server_health: Err(ServerNotFound(server_id)) when the id is absent
check_server_health_effect(server_id, cpu_raw, memory_raw, disk_raw) ==
    IF HasServer(servers, server_id)
    THEN /\ ChecksDone(servers, DOMAIN servers) < MaxChecks
         /\ servers' = [servers EXCEPT
                           ![server_id] = CheckedServer(@, cpu_raw, memory_raw, disk_raw)]
         /\ infra_ret' = [op |-> "check_server_health", ok |-> TRUE, value |-> server_id]
    ELSE /\ servers' = servers
         /\ infra_ret' = ServerNotFound(server_id)

\* check_server_health
check_server_health(server_id, cpu_raw, memory_raw, disk_raw) ==
    /\ check_server_health_effect(server_id, cpu_raw, memory_raw, disk_raw)
    /\ UNCHANGED << devops_vars, infosec_vars, ops_vars,
                    ticket_vars, net_vars, bus_vars, run_vars, more_vars >>

NeedsScaling_AtEighty(server) == server.cpu_usage >= 80 \/ server.memory_usage >= 80

\* the test auto_scale applies to each server of its snapshot
NeedsScaling(server) == server.cpu_usage > 80 \/ server.memory_usage > 80

\* format!("{}-scale-{}", server.hostname, chrono::Utc::now().timestamp())
ScaleHostname(hostname, timestamp) == hostname \o << "-scale-", timestamp >>

\* format!("Scaled up: added server {}", new_server.hostname)
ScaleAction(hostname) == << "Scaled up: added server " >> \o hostname

\* the orders in which the keys of a HashMap can be iterated
IterationOrders(keys) ==
    {order \in [1..Cardinality(keys) -> keys] :
        \A i, j \in 1..Cardinality(keys) : order[i] = order[j] => i = j}

\* the loop of auto_scale over the cloned server map, in the given order:
\* acc.servers is the live map, acc.actions the actions pushed so far
RECURSIVE ScaleLoop(_, _, _, _)
ScaleLoop(snapshot, order, timestamp, acc) ==
    IF order = << >> THEN acc
    ELSE LET server == snapshot[Head(order)]
             new_server_config == ServerConfig(ScaleHostname(server.hostname, timestamp))
         IN  IF NeedsScaling(server)
             THEN ScaleLoop(snapshot, Tail(order), timestamp,
                            [servers |-> ProvisionedServers(acc.servers, new_server_config),
                             actions |-> Append(acc.actions,
                                                ScaleAction(new_server_config.hostname))])
             ELSE ScaleLoop(snapshot, Tail(order), timestamp, acc)

\* auto_scale
auto_scale_as(op) ==
    /\ Cardinality(DOMAIN servers)
          + Cardinality({id \in DOMAIN servers : NeedsScaling(servers[id])}) <= MaxServers
    /\ \E order \in IterationOrders(DOMAIN servers) :
          LET result == ScaleLoop(servers, order, "1700000000",
                                  [servers |-> servers, actions |-> << >>])
          IN  /\ servers' = result.servers
              /\ infra_ret' = [op |-> op, ok |-> TRUE,
                               value |-> IF op = "auto_scale" THEN result.actions
                                                              ELSE << >>]
    /\ UNCHANGED << devops_vars, infosec_vars, ops_vars,
                    ticket_vars, net_vars, bus_vars, run_vars, more_vars >>

auto_scale == auto_scale_as("auto_scale")

\* process_message, "scale_request" arm
process_message_scale_request == auto_scale_as("process_message")

\* values of rand::random::<f32>() * 100.0 for cpu, memory and disk, in percent
ScaleSamples == {<< 40, 40, 40 >>, << 80, 80, 99 >>, << 85, 40, 40 >>, << 40, 85, 40 >>}

HealthSamples == {<< 40, 40, 40 >>, << 75, 75, 99 >>, << 76, 40, 40 >>, << 40, 76, 40 >>,
                  << 90, 91, 40 >>, << 91, 40, 40 >>, << 99, 99, 99 >>}

DevOpsScaleNext ==
    \/ \E server_config \in ServerConfigs : provision_server(server_config)
    \/ \E server_id \in ServerIds : \E sample \in ScaleSamples :
          check_server_health(server_id, sample[1], sample[2], sample[3])
    \/ auto_scale
    \/ process_message_scale_request

DevOpsHealthNext ==
    \/ \E server_config \in ServerConfigs : provision_server(server_config)
    \/ \E server_id \in ServerIds : \E sample \in HealthSamples :
          check_server_health(server_id, sample[1], sample[2], sample[3])

C18_HealthFromFreshSample ==
    [][(infra_ret'.op = "check_server_health" /\ infra_ret'.ok /\ vars' # vars)
        => LET id == infra_ret'.value
               cpu == servers'[id].cpu_usage
               mem == servers'[id].memory_usage
           IN  /\ (servers'[id].status = "Critical") <=> (cpu > 90 \/ mem > 90)
               /\ (servers'[id].status = "Degraded")
                     <=> (~(cpu > 90 \/ mem > 90) /\ (cpu > 75 \/ mem > 75))
               /\ (servers'[id].status = "Online") <=> ~(cpu > 75 \/ mem > 75)
               /\ DOMAIN servers' = DOMAIN servers
               /\ \A other \in (DOMAIN servers) \ {id} :
                     servers'[other] = servers[other]]_vars

C18_Witness ==
    /\ infra_ret.op = "check_server_health" /\ infra_ret.ok
    /\ servers[infra_ret.value].uptime = 600
    /\ servers[infra_ret.value].memory_usage = 90
    /\ servers[infra_ret.value].cpu_usage = 90
    /\ servers[infra_ret.value].status = "Degraded"
    /\ \E other \in (DOMAIN servers) \ {infra_ret.value} :
          servers[other].status = "Critical"

ServerInit ==
    /\ servers = EmptyMap
    /\ infra_ret = [op |-> "none", ok |-> TRUE, value |-> 0]

(***************************************************************************)
(* InfoSec: compliance audit                                               *)
(***************************************************************************)
\* values of (rand::random::<f32>() * 20.0 + 80.0) as u8, in 80..99, and of its
\* two siblings, in 85..99 and 90..99: the ends and some values between
GdprScores == {80, 81, 90, 95, 99}
Soc2Scores == {85, 86, 90, 95, 99}
IsoScores == {90, 91, 93, 96, 99}

\* the build decides what a u8 addition that leaves 0..255 does: the debug
\* profile panics (overflow checks), the release profile wraps
BuildProfiles == {"debug", "release"}

DefaultComplianceStatus ==
    [gdpr_compliance |-> 85, soc2_compliance |-> 88, iso27001_compliance |-> 82]

\* a + b on u8 operands: the wrapped sum and whether it left the range
AddU8(a, b) == [value |-> AsU8(a + b), overflow |-> a + b > 255]

\* (gdpr_score + soc2_score + iso_score) / 3, evaluated left to right in u8
OverallCompliance(gdpr_score, soc2_score, iso_score) ==
    LET first == AddU8(gdpr_score, soc2_score)
        second == AddU8(first.value, iso_score)
    IN [value |-> second.value \div 3,
        overflow |-> first.overflow \/ second.overflow]

AuditResults(gdpr_score, soc2_score, iso_score, overall) ==
    [gdpr_compliance |-> gdpr_score, soc2_compliance |-> soc2_score,
     iso27001_compliance |-> iso_score, overall_compliance |-> overall]

\* perform_compliance_audit: the three scores are stored first, then the
\* results are built; an overflowing sum panics in a debug build (no value
\* is returned) and wraps in a release build.  The direct call returns
\* Ok(results); process_message drops the results and returns Ok(())
perform_compliance_audit_as(gdpr_score, soc2_score, iso_score, profile, op) ==
    LET overall == OverallCompliance(gdpr_score, soc2_score, iso_score)
    IN /\ compliance_status' = [gdpr_compliance |-> gdpr_score,
                                soc2_compliance |-> soc2_score,
                                iso27001_compliance |-> iso_score]
       /\ infosec_ret' =
            IF overall.overflow /\ profile = "debug"
            THEN [op |-> op, ok |-> FALSE, panic |-> TRUE, value |-> None]
            ELSE [op |-> op, ok |-> TRUE, panic |-> FALSE,
                  value |-> IF op = "perform_compliance_audit"
                            THEN Some(AuditResults(gdpr_score, soc2_score, iso_score,
                                                   overall.value))
                            ELSE None]
       /\ UNCHANGED << security_posture, active_incidents, devops_vars, ops_vars,
                       ticket_vars, server_vars, net_vars, bus_vars, run_vars,
                       perf_vars, orch_vars, daily_vars, rest_vars >>

perform_compliance_audit(gdpr_score, soc2_score, iso_score, profile) ==
    perform_compliance_audit_as(gdpr_score, soc2_score, iso_score, profile,
                                "perform_compliance_audit")

InfoSecAuditNext ==
    \E gdpr_score \in GdprScores, soc2_score \in Soc2Scores, iso_score \in IsoScores,
       profile \in BuildProfiles :
          perform_compliance_audit(gdpr_score, soc2_score, iso_score, profile)

\* C21: perform_compliance_audit returns Ok for every triple of scores it can
\* sample, stores the three scores, and reports overall_compliance equal to
\* the integer average of the three, every score and the overall in 0..100.
C21_AuditReportsAverage ==
    infosec_ret.op = "perform_compliance_audit"
       => /\ infosec_ret.ok
          /\ infosec_ret.value.value.gdpr_compliance = compliance_status.gdpr_compliance
          /\ infosec_ret.value.value.soc2_compliance = compliance_status.soc2_compliance
          /\ infosec_ret.value.value.iso27001_compliance
                = compliance_status.iso27001_compliance
          /\ infosec_ret.value.value.overall_compliance
                = (compliance_status.gdpr_compliance + compliance_status.soc2_compliance
                   + compliance_status.iso27001_compliance) \div 3
          /\ infosec_ret.value.value.overall_compliance \in 0..100
          /\ compliance_status.gdpr_compliance \in 0..100
          /\ compliance_status.soc2_compliance \in 0..100
          /\ compliance_status.iso27001_compliance \in 0..100

(***************************************************************************)
(* Orchestrator: the agent registry                                        *)
(***************************************************************************)
Departments == {"Engineering", "Sales", "DevOps", "InfoSec", "Networking", "Ops",
                "Marketing", "Finance", "HR", "Legal"}

\* the department of the agent create_agent builds: the four department
\* agents set their own, every other department gets a DevOpsAgent placeholder
BuiltDepartment(department) ==
    IF department \in {"DevOps", "InfoSec", "Networking", "Ops"}
    THEN department ELSE "DevOps"

\* the departments of the create_agent calls of initialize_departments, in
\* call order: the six managers, then create_department_agents with counts
\* 3, 2, 2 and 3
CreatedDepartments ==
    << "Engineering", "Sales", "DevOps", "InfoSec", "Networking", "Ops",
       "DevOps", "DevOps", "DevOps", "InfoSec", "InfoSec",
       "Networking", "Networking", "Ops", "Ops", "Ops" >>

FreshAgentKey_Reused(registry) == 1

\* let agent_id = Uuid::new_v4(): the registry key, drawn apart from the id
\* Agent::new gives the agent itself
FreshAgentKey(registry) == Cardinality(DOMAIN registry) + 1

\* the id Agent::new draws for the agent stored under a key: the managers of
\* the four departments are the agents followed in the department sections
AgentIdOf(key) ==
    CASE key = 3 -> DevOpsAgentId
      [] key = 4 -> InfoSecAgentId
      [] key = 5 -> NetworkingAgentId
      [] key = 6 -> OpsAgentId
      [] OTHER -> 200 + key

\* create_agent
create_agent(registry, department) ==
    Insert(registry, FreshAgentKey(registry),
           [id |-> AgentIdOf(FreshAgentKey(registry)),
            department |-> BuiltDepartment(department)])

RECURSIVE CreateAgents(_, _)
CreateAgents(registry, departments) ==
    IF departments = << >> THEN registry
    ELSE CreateAgents(create_agent(registry, Head(departments)), Tail(departments))

\* initialize_departments
InitialRegistry == CreateAgents(EmptyMap, CreatedDepartments)

\* the ids of the agents of the registry
RegisteredAgentIds == {InitialRegistry[key].id : key \in DOMAIN InitialRegistry}

\* the registry keys that hold the agents followed in the department
\* sections
TrackedKeys ==
    {key \in DOMAIN InitialRegistry :
        InitialRegistry[key].id \in {DevOpsAgentId, InfoSecAgentId,
                                     NetworkingAgentId, OpsAgentId}}

\* self.agents.values(), values_mut() and keys() visit the registry in the
\* order its HashMap has: the keys are fresh Uuids and the hasher is seeded
\* when the map is built, so the order differs from one CompanySimulation to
\* the next and stays the same while the map is not modified.  Orders that
\* put a manager or another agent first in its department; the second is one
\* observed on a run
IterationOrderSamples ==
    {<< 3, 4, 5, 6, 1, 2, 7, 8, 9, 10, 11, 12, 13, 14, 15, 16 >>,
     << 5, 1, 14, 11, 6, 3, 9, 10, 7, 12, 15, 2, 16, 4, 8, 13 >>}

\* position of a key in an iteration order
PositionIn(order, key) == CHOOSE i \in 1..Len(order) : order[i] = key

FirstAgentOf_SmallestKey(registry, order, department) ==
    LET keys == {key \in DOMAIN registry : registry[key].department = department}
    IN  IF keys = {} THEN None
        ELSE Some(CHOOSE key \in keys : \A other \in keys : key <= other)

\* "for agent in self.agents.values() { if agent.get_agent().department ==
\* department { ..; break; } }": the first agent of the department in the
\* iteration order, if there is one
FirstAgentOf(registry, order, department) ==
    LET keys == {key \in DOMAIN registry : registry[key].department = department}
    IN  IF keys = {} THEN None
        ELSE Some(CHOOSE key \in keys :
                     \A other \in keys : PositionIn(order, key) <= PositionIn(order, other))

(***************************************************************************)
(* Message bus.  main.rs holds only the callers of MessageBus::send_message *)
(* (process_messages and the handle_* event functions); the bus itself is  *)
(* modelled from section 4.1 of the specification: a directory of the live *)
(* agents and one queue per (sender, recipient) pair, delivered            *)
(* asynchronously, at most once, in FIFO order within a pair.              *)
(***************************************************************************)
NilAgentId == 0                \* Uuid::nil(), the sender of system messages
UnknownAgentId == 999          \* an id that names no agent
\* the directory of the bus: the agents created at startup
LiveAgents == RegisteredAgentIds
Senders == {NilAgentId, DevOpsAgentId}
\* the recipients the senders above address
Recipients == {DevOpsAgentId, OpsAgentId, UnknownAgentId}
MessageIds == 1..MaxMessages
BusPairs == Senders \X Recipients
\* registry keys process_messages draws as sender and as receiver, and the
\* message kinds it draws, in the runs followed
DrawnSenders == {1}
DrawnReceivers == {6}
DrawnKeys == DrawnSenders \cup DrawnReceivers
DrawnKinds == {"status_update"}
\* every address a queue or an inbox is kept for
BusAddresses == LiveAgents \cup {UnknownAgentId} \cup DrawnKeys
BusChannels == (Senders \cup DrawnKeys) \X BusAddresses

\* the Message the callers of main.rs build
Message(id, from_agent, to_agent, message_type) ==
    [id |-> id, from_agent |-> from_agent, to_agent |-> to_agent,
     message_type |-> message_type]

\* the message kinds process_messages picks from, by index draw 0..3
MessageTypes == {"status_update", "collaboration_request", "issue_report",
                 "resource_request"}

IsLiveAgent_Anyone(agent_id) == agent_id \in BusAddresses

\* the directory lookup of the bus
IsLiveAgent(agent_id) == agent_id \in LiveAgents

\* the channel a message is queued on
ChannelOf(message) == << message.from_agent, message.to_agent >>

NextToDeliver_Newest(channel) == channel[Len(channel)]

\* the message of a channel the bus delivers next
NextToDeliver(channel) == Head(channel)

\* the channel without the given message
RemoveMessage(channel, message) ==
    SelectSeq(channel, LAMBDA m : m.id # message.id)

\* Uuid::new_v4() of a new message: an id no accepted message has
FreshMessageId == CHOOSE id \in MessageIds :
                     /\ \A i \in 1..Len(bus_sent) : bus_sent[i].id # id
                     /\ \A other \in MessageIds :
                           (\A i \in 1..Len(bus_sent) : bus_sent[i].id # other) => id <= other

\* what MessageBus::send_message does to the bus, given whether the
\* recipient is a live agent
send_message_answer(from_agent, to_agent, message_type, live) ==
    LET message == Message(FreshMessageId, from_agent, to_agent, message_type)
    IN  IF live
        THEN /\ bus_channels' = [bus_channels EXCEPT
                                    ![ChannelOf(message)] = Append(@, message)]
             /\ bus_sent' = Append(bus_sent, message)
             /\ bus_ret' = [op |-> "send_message", ok |-> TRUE, error |-> "none",
                            to_agent |-> to_agent]
        ELSE /\ bus_ret' = [op |-> "send_message", ok |-> FALSE,
                            error |-> "UnknownRecipient", to_agent |-> to_agent]
             /\ UNCHANGED << bus_channels, bus_sent >>

\* send_message on a bus whose directory holds the agents created at startup
send_message_effect(from_agent, to_agent, message_type) ==
    send_message_answer(from_agent, to_agent, message_type, IsLiveAgent(to_agent))

\* the answers the bus of a running simulation can give: main.rs registers no
\* agent with the bus and the bus is not part of the sources, so whether it
\* knows a recipient is not decided there; both answers are followed
BusAnswers == BOOLEAN

\* MessageBus::send_message
send_message(from_agent, to_agent, message_type) ==
    /\ Len(bus_sent) < MaxMessages
    /\ send_message_effect(from_agent, to_agent, message_type)
    /\ UNCHANGED << bus_inbox, devops_vars, infosec_vars, ops_vars,
                    ticket_vars, server_vars, net_vars, run_vars, more_vars >>

\* the bus hands the next message of a channel to its recipient
bus_deliver(pair) ==
    /\ bus_channels[pair] # << >>
    /\ LET message == NextToDeliver(bus_channels[pair])
       IN  /\ bus_inbox' = [bus_inbox EXCEPT ![pair[2]] = Append(@, message)]
           /\ bus_channels' = [bus_channels EXCEPT ![pair] = RemoveMessage(@, message)]
    /\ UNCHANGED << bus_sent, bus_ret, devops_vars, infosec_vars, ops_vars,
                    ticket_vars, server_vars, net_vars, run_vars, more_vars >>

\* at-most-once delivery: the bus may lose the next message of a channel
bus_drop(pair) ==
    /\ bus_channels[pair] # << >>
    /\ bus_channels' = [bus_channels EXCEPT
                           ![pair] = RemoveMessage(@, NextToDeliver(@))]
    /\ UNCHANGED << bus_inbox, bus_sent, bus_ret, devops_vars, infosec_vars, ops_vars,
                    ticket_vars, server_vars, net_vars, run_vars, more_vars >>

BusNext ==
    \/ \E from_agent \in Senders : \E to_agent \in Recipients :
          \E message_type \in MessageTypes :
             send_message(from_agent, to_agent, message_type)
    \/ \E pair \in BusPairs : bus_deliver(pair)
    \/ \E pair \in BusPairs : bus_drop(pair)

BusInit ==
    /\ bus_channels = [pair \in BusChannels |-> << >>]
    /\ bus_inbox = [agent \in BusAddresses |-> << >>]
    /\ bus_sent = << >>
    /\ bus_ret = [op |-> "none", ok |-> TRUE, error |-> "none", to_agent |-> NilAgentId]

\* position of a message in the order in which send_message accepted them
SentPosition(message) == CHOOSE i \in 1..Len(bus_sent) : bus_sent[i].id = message.id

\* C15: sending to a recipient id that is not a live agent returns
\* UnknownRecipient and changes nothing: no queue, no inbox, no agent state.
C15_UnknownRecipientNoEffect ==
    [][\A from_agent \in Senders : \A to_agent \in Recipients :
          \A message_type \in MessageTypes :
             (/\ send_message(from_agent, to_agent, message_type)
              /\ to_agent \notin LiveAgents)
             => /\ ~bus_ret'.ok /\ bus_ret'.error = "UnknownRecipient"
                /\ bus_inbox' = bus_inbox
                /\ bus_channels' = bus_channels
                /\ bus_sent' = bus_sent
                /\ << devops_vars, infosec_vars, ops_vars, ticket_vars,
                      server_vars, net_vars >>' =
                   << devops_vars, infosec_vars, ops_vars, ticket_vars,
                      server_vars, net_vars >>]_vars

C15_Witness ==
    /\ ~bus_ret.ok /\ bus_ret.error = "UnknownRecipient"
    /\ bus_ret.to_agent = UnknownAgentId
    /\ Len(bus_sent) = 1
    /\ Len(bus_inbox[OpsAgentId]) = 1

\* C16: the messages a recipient has received from one sender are in the order
\* they were sent, and no message is received twice, whatever the bus did with
\* the messages of other (sender, recipient) pairs.
C16_FifoAtMostOnce ==
    \A agent \in LiveAgents :
       LET inbox == bus_inbox[agent]
       IN  /\ \A i, j \in 1..Len(inbox) : inbox[i].id = inbox[j].id => i = j
           /\ \A i \in 1..Len(inbox) :
                 /\ inbox[i].to_agent = agent
                 /\ \E k \in 1..Len(bus_sent) : bus_sent[k] = inbox[i]
           /\ \A i, j \in 1..Len(inbox) :
                 (i < j /\ inbox[i].from_agent = inbox[j].from_agent)
                    => SentPosition(inbox[i]) < SentPosition(inbox[j])

C16_Witness ==
    /\ Len(bus_sent) = 3
    /\ bus_sent[1].from_agent = NilAgentId /\ bus_sent[1].to_agent = OpsAgentId
    /\ bus_sent[2].from_agent = DevOpsAgentId /\ bus_sent[2].to_agent = OpsAgentId
    /\ bus_sent[3].from_agent = NilAgentId /\ bus_sent[3].to_agent = OpsAgentId
    /\ bus_inbox[OpsAgentId] = << bus_sent[2], bus_sent[1], bus_sent[3] >>

(***************************************************************************)
(* Networking: segments                                                    *)
(***************************************************************************)
SecurityLevel == {"Public", "DMZ", "Internal", "Restricted", "Critical"}
SegmentIds == 1..MaxSegments

SegmentConfig(name, cidr, security_level) ==
    [name |-> name, cidr |-> cidr, security_level |-> security_level]

\* the config process_message builds for a configure_segment message
MessageSegmentConfig(metadata) ==
    SegmentConfig(IF metadata.name.some THEN metadata.name.value ELSE "default",
                  IF metadata.cidr.some THEN metadata.cidr.value ELSE "10.0.0.0/24",
                  "Internal")

\* the NetworkSegment record configure_segment inserts
NewSegment(segment_id, config) ==
    [id |-> segment_id,
     name |-> config.name,
     cidr |-> config.cidr,
     security_level |-> config.security_level,
     connected_segments |-> << >>,
     devices |-> << >>]

\* format!("seg-{}", Uuid::new_v4().simple()): a key no segment has yet
FreshSegmentId(segment_map) == CHOOSE id \in SegmentIds \ DOMAIN segment_map :
                                  \A other \in SegmentIds \ DOMAIN segment_map : id <= other

\* configure_segment
configure_segment_as(config, op) ==
    /\ Cardinality(DOMAIN segments) < MaxSegments
    /\ segments' = Insert(segments, FreshSegmentId(segments),
                          NewSegment(FreshSegmentId(segments), config))
    /\ net_ret' = [op |-> op, ok |-> TRUE,
                   value |-> IF op = "configure_segment" THEN FreshSegmentId(segments) ELSE 0]
    /\ UNCHANGED << devops_vars, infosec_vars, ops_vars,
                    ticket_vars, server_vars, bus_vars, run_vars, more_vars >>

configure_segment(config) == configure_segment_as(config, "configure_segment")

\* process_message, "configure_segment" arm
process_message_configure_segment(metadata) ==
    configure_segment_as(MessageSegmentConfig(metadata), "process_message")

NetInit ==
    /\ segments = EmptyMap
    /\ net_ret = [op |-> "none", ok |-> TRUE, value |-> 0]

(***************************************************************************)
(* Networking: firewall rules and registered services                      *)
(***************************************************************************)
\* the FirewallRuleConfig process_message builds for an add_firewall_rule message
MessageFirewallRuleConfig(metadata) ==
    [name |-> IF metadata.name.some THEN metadata.name.value ELSE "default-rule",
     source_segment |-> IF metadata.source.some THEN metadata.source.value ELSE "any",
     destination_segment |-> IF metadata.destination.some
                             THEN metadata.destination.value ELSE "any",
     port_range |-> [start |-> 80, end |-> 443],
     protocol |-> "TCP",
     action |-> "Allow"]

\* the FirewallRule record add_firewall_rule pushes
FirewallRule(rule_id, rule_config) ==
    [id |-> rule_id,
     name |-> rule_config.name,
     source_segment |-> rule_config.source_segment,
     destination_segment |-> rule_config.destination_segment,
     port_range |-> rule_config.port_range,
     protocol |-> rule_config.protocol,
     action |-> rule_config.action,
     enabled |-> TRUE]

\* format!("fw-{}", Uuid::new_v4().simple()): an id no rule has yet
FreshRuleId(rules) == << "fw-", Len(rules) + 1 >>

\* add_firewall_rule: Ok(rule_id) for the direct call; process_message drops
\* the id and returns Ok(())
add_firewall_rule_as(rule_config, op) ==
    /\ Len(firewall_rules) < MaxFirewallRules
    /\ firewall_rules' =
          Append(firewall_rules, FirewallRule(FreshRuleId(firewall_rules), rule_config))
    /\ net_ret' = [op |-> op, ok |-> TRUE,
                   value |-> IF op = "add_firewall_rule"
                             THEN FreshRuleId(firewall_rules) ELSE 0]
    /\ UNCHANGED << segments, bandwidth_usage, network_services,
                    devops_vars, infosec_vars, ops_vars, ticket_vars, server_vars,
                    bus_vars, run_vars, sec_vars, orch_vars, daily_vars, rest_vars >>

\* process_message, "add_firewall_rule" arm
process_message_add_firewall_rule(metadata) ==
    add_firewall_rule_as(MessageFirewallRuleConfig(metadata), "process_message")

\* the ServiceConfig process_message builds for a register_service message
MessageServiceConfig(metadata) ==
    [name |-> IF metadata.name.some THEN metadata.name.value ELSE "unknown",
     service_type |-> "WebServer",
     endpoints |-> << IF metadata.endpoint.some
                      THEN metadata.endpoint.value ELSE "localhost:8080" >>]

\* the NetworkService record register_service inserts
NetworkService(service_config) ==
    [name |-> service_config.name,
     service_type |-> service_config.service_type,
     endpoints |-> service_config.endpoints,
     status |-> "Healthy"]

\* register_service: the service is stored under its name
register_service_as(service_config, op) ==
    /\ network_services' =
          Insert(network_services, service_config.name, NetworkService(service_config))
    /\ net_ret' = [op |-> op, ok |-> TRUE, value |-> 0]
    /\ UNCHANGED << segments, bandwidth_usage, firewall_rules,
                    devops_vars, infosec_vars, ops_vars, ticket_vars, server_vars,
                    bus_vars, run_vars, sec_vars, orch_vars, daily_vars, rest_vars >>

\* process_message, "register_service" arm
process_message_register_service(metadata) ==
    register_service_as(MessageServiceConfig(metadata), "process_message")

(***************************************************************************)
(* Networking: performance monitoring                                      *)
(***************************************************************************)
\* segment configurations given to configure_segment directly
SegmentConfigs ==
    {SegmentConfig("web-tier", "10.0.1.0/24", security_level) :
        security_level \in SecurityLevel}

\* BandwidthMetrics: inbound_bps and outbound_bps are (rand * 1000000.0) as u64,
\* total_bytes is rand % 1000000000; the ends of the three ranges
BandwidthMetrics(inbound_bps, outbound_bps, total_bytes) ==
    << inbound_bps, outbound_bps, total_bytes >>

BandwidthSamples ==
    {BandwidthMetrics(0, 0, 0), BandwidthMetrics(999999, 999999, 999999999)}

\* the loop of monitor_performance: one entry per configured segment, keyed
\* by the segment's key, over the entries already there
MonitoredBandwidth(usage, segment_map, metrics) ==
    [id \in (DOMAIN usage) \cup (DOMAIN segment_map) |->
        IF id \in DOMAIN segment_map THEN metrics[id] ELSE usage[id]]

\* monitor_performance (latency_stats, packet_loss and last_update are
\* overwritten with fresh samples; they are not part of the state followed)
monitor_performance_as(metrics, op) ==
    /\ bandwidth_usage' = MonitoredBandwidth(bandwidth_usage, segments, metrics)
    /\ net_ret' = [op |-> op, ok |-> TRUE, value |-> 0]
    /\ UNCHANGED << segments, firewall_rules, network_services,
                    devops_vars, infosec_vars, ops_vars,
                    ticket_vars, server_vars, bus_vars, run_vars,
                    sec_vars, orch_vars, daily_vars, rest_vars >>

monitor_performance(metrics) == monitor_performance_as(metrics, "monitor_performance")

NetPerfNext ==
    \/ \E config \in SegmentConfigs : configure_segment(config)
    \/ \E metrics \in [DOMAIN segments -> BandwidthSamples] : monitor_performance(metrics)

\* C22: after monitor_performance returns Ok on any Networking agent, a
\* freshly constructed one included, bandwidth_usage is non-empty.
C22_BandwidthUsageNonEmpty ==
    (net_ret.op = "monitor_performance" /\ net_ret.ok)
       => DOMAIN bandwidth_usage # {}

(***************************************************************************)
(* InfoSec: security incidents                                             *)
(***************************************************************************)
SecurityIncidentIds == 1..MaxSecurityIncidents

\* IncidentReport values given to handle_incident directly
SecurityIncidentReports ==
    [title : {"Test Security Incident"}, severity : Severities,
     affected_systems : {<< "web-server" >>}]

\* the report process_message builds for an incident_report message
MessageSecurityReport(title) ==
    [title |-> IF title.some THEN title.value ELSE "Security Incident",
     severity |-> "High",
     affected_systems |-> << "unknown" >>]

SecurityIncident_Unassigned(incident_id, incident_report, agent) ==
    [id |-> incident_id,
     title |-> incident_report.title,
     severity |-> incident_report.severity,
     status |-> "Open",
     assigned_to |-> None,
     resolution_steps |-> << "Initial assessment" >>,
     affected_systems |-> incident_report.affected_systems]

\* the SecurityIncident handle_incident builds
SecurityIncident(incident_id, incident_report, agent) ==
    [id |-> incident_id,
     title |-> incident_report.title,
     severity |-> incident_report.severity,
     status |-> "Open",
     assigned_to |-> Some(agent.id),
     resolution_steps |-> << "Initial assessment" >>,
     affected_systems |-> incident_report.affected_systems]

\* Uuid::new_v4(): an id no incident has yet
FreshSecurityIncidentId(incident_map) ==
    CHOOSE id \in SecurityIncidentIds \ DOMAIN incident_map :
       \A other \in SecurityIncidentIds \ DOMAIN incident_map : id <= other

\* handle_incident: Ok(incident_id) for the direct call; process_message drops
\* the id and returns Ok(())
handle_incident_as(incident_report, op) ==
    /\ Cardinality(DOMAIN active_incidents) < MaxSecurityIncidents
    /\ LET incident_id == FreshSecurityIncidentId(active_incidents)
       IN  /\ active_incidents' =
                Insert(active_incidents, incident_id,
                       SecurityIncident(incident_id, incident_report, InfoSecAgentRecord))
           /\ infosec_ret' = [op |-> op, ok |-> TRUE,
                              value |-> IF op = "handle_incident"
                                        THEN Some(incident_id) ELSE None]
    /\ UNCHANGED << security_posture, compliance_status, devops_vars, ops_vars,
                    ticket_vars, server_vars, net_vars, bus_vars, run_vars,
                    perf_vars, orch_vars, daily_vars, rest_vars >>

handle_incident(incident_report) == handle_incident_as(incident_report, "handle_incident")

\* process_message, "incident_report" arm
process_message_incident_report(title) ==
    handle_incident_as(MessageSecurityReport(title), "process_message")

InfoSecIncidentsNext ==
    \/ \E incident_report \in SecurityIncidentReports : handle_incident(incident_report)
    \/ \E title \in {None, Some("Phishing mail")} : process_message_incident_report(title)

\* C24: handle_incident, called directly or through an incident_report
\* message, adds exactly one incident, Open and assigned to the handling
\* agent, for every severity, and leaves the incidents already there unchanged.
C24_IncidentOpenAssignedToSelf ==
    [][(\/ \E incident_report \in SecurityIncidentReports : handle_incident(incident_report)
        \/ \E title \in {None, Some("Phishing mail")} :
              process_message_incident_report(title))
         => /\ infosec_ret'.ok
            /\ \E id \in DOMAIN active_incidents' :
                  /\ id \notin DOMAIN active_incidents
                  /\ DOMAIN active_incidents' = DOMAIN active_incidents \cup {id}
                  /\ active_incidents'[id].status = "Open"
                  /\ active_incidents'[id].assigned_to = Some(InfoSecAgentId)
            /\ \A id \in DOMAIN active_incidents :
                  active_incidents'[id] = active_incidents[id]]_vars

C24_Witness ==
    /\ Cardinality(DOMAIN active_incidents) = 2
    /\ active_incidents[1].severity = "Info"
    /\ active_incidents[1].status = "Open"
    /\ active_incidents[1].assigned_to = Some(InfoSecAgentId)
    /\ active_incidents[2].title = "Security Incident"
    /\ active_incidents[2].assigned_to = Some(InfoSecAgentId)
    /\ infosec_ret.op = "process_message"

(***************************************************************************)
(* Ops: SLA tracking.  The percentages are f32 values between 64 and 128,   *)
(* where the f32 are the multiples of 2^-17: a percentage is kept as its    *)
(* number of such units (99.0 is 99 * 131072).  A draw of                   *)
(* rand::random::<f32>() is kept in units of 2^-30; every f32 of            *)
(* [2^-7, 1) is a multiple of it.  The impact text shows two decimals.      *)
(***************************************************************************)
\* n / d rounded to the nearest integer, a tie to the even one: the rounding
\* of an f32 operation and of the decimal formatting of a float
RoundHalfEven(n, d) ==
    LET q == n \div d
        r == n % d
    IN  IF 2 * r > d \/ (2 * r = d /\ q % 2 = 1) THEN q + 1 ELSE q

\* the f32 a literal with one decimal denotes (99.9 is the f32
\* 99.90000152587890625), given in tenths
F32OfTenths(tenths) == RoundHalfEven(tenths * 131072, 10)

\* SLATracking::default: the one tracked service; no code changes slas
Slas ==
    [service_name \in {"web-service"} |->
        [service_name |-> service_name, uptime_target |-> F32OfTenths(999),
         response_time_target |-> 500, resolution_time_target |-> 4]]

\* 99.0 + rand::random::<f32>() * 2.0: the doubling is exact, the sum is
\* rounded to the f32 grid
Compliance(draw) == 99 * 131072 + RoundHalfEven(draw, 4096)

\* draws of rand::random::<f32>(): 0.0 (99.0), 0.012498868 (99.0250015..),
\* 0.0625 and 0.1875 (99.125 and 99.375, halfway between two hundredths),
\* 0.4425001 (99.8850021..), the draw just below 0.45 (99.8999938.., the f32
\* next below the target), 0.45 (the target itself) and the largest f32
\* below 1.0 (the sum rounds to 101.0)
SlaSamples == {0, 13420557, 67108864, 201326592, 475130880, 483180544,
               483183808, 1073741760}

BelowTarget_AtTarget(compliance, sla) == compliance <= sla.uptime_target

\* compliance < sla.uptime_target
BelowTarget(compliance, sla) == compliance < sla.uptime_target

\* format!("{:.2}", x): the exact value of the f32 rounded to the nearest
\* hundredth, a tie (an f32 exactly halfway, as 99.125) to the even one; the
\* result is in hundredths of a percent
FormatHundredths(percentage) == RoundHalfEven(percentage * 100, 131072)

\* the SLAViolation monitor_sla pushes; impact is the formatted text: the
\* comparison uses the unrounded values, the text the rounded ones
SLAViolation(service_name, compliance, sla) ==
    [service |-> service_name,
     violation_type |-> "Uptime Target",
     impact |-> << "Uptime ", FormatHundredths(compliance), " below target ",
                  FormatHundredths(sla.uptime_target) >>,
     resolution |-> None]

\* the loop of monitor_sla over the cloned slas, in the given order:
\* acc.compliance and acc.violations are the live map and list
RECURSIVE SlaLoop(_, _, _)
SlaLoop(order, samples, acc) ==
    IF order = << >> THEN acc
    ELSE LET service_name == Head(order)
             compliance == Compliance(samples[service_name])
             inserted == Insert(acc.compliance, service_name, compliance)
         IN  SlaLoop(Tail(order), samples,
                     [compliance |-> inserted,
                      violations |->
                         IF BelowTarget(compliance, Slas[service_name])
                         THEN Append(acc.violations,
                                     SLAViolation(service_name, compliance,
                                                  Slas[service_name]))
                         ELSE acc.violations])

\* monitor_sla: what it writes and returns
monitor_sla_effect(samples, op) ==
    /\ Len(sla_violations) + Cardinality(DOMAIN Slas) <= MaxViolations
    /\ \E order \in IterationOrders(DOMAIN Slas) :
          LET result == SlaLoop(order, samples,
                                [compliance |-> sla_compliance,
                                 violations |-> sla_violations])
          IN  /\ sla_compliance' = result.compliance
              /\ sla_violations' = result.violations
    /\ ops_ret' = [op |-> op, ok |-> TRUE, value |-> 0]

\* monitor_sla
monitor_sla(samples) ==
    /\ monitor_sla_effect(samples, "monitor_sla")
    /\ UNCHANGED << incidents, change_queue, devops_vars, infosec_vars, ticket_vars,
                    server_vars, net_vars, bus_vars, run_vars, sec_vars, perf_vars,
                    orch_vars, daily_vars, load_balancers, active_controls >>

OpsSlaNext ==
    \E samples \in [DOMAIN Slas -> SlaSamples] : monitor_sla(samples)

\* C31: a monitor_sla cycle overwrites the stored compliance of every tracked
\* service with the new sample, appends a violation for a service exactly
\* when its sample is below the service's uptime target, keeps the violations
\* recorded before as they were, and leaves the compliance map non-empty.
C31_SlaCycleRecords ==
    [][\A samples \in [DOMAIN Slas -> SlaSamples] :
          monitor_sla_effect(samples, "monitor_sla")
             => /\ \A service_name \in DOMAIN Slas :
                      sla_compliance'[service_name] =
                         Compliance(samples[service_name])
                /\ DOMAIN sla_compliance' # {}
                /\ Len(sla_violations') >= Len(sla_violations)
                /\ SubSeq(sla_violations', 1, Len(sla_violations)) = sla_violations
                /\ \A service_name \in DOMAIN Slas :
                      (Compliance(samples[service_name])
                          < Slas[service_name].uptime_target)
                         <=> \E i \in (Len(sla_violations) + 1)..Len(sla_violations') :
                                sla_violations'[i].service = service_name
                /\ Len(sla_violations') - Len(sla_violations) =
                      Cardinality({service_name \in DOMAIN Slas :
                                      Compliance(samples[service_name])
                                         < Slas[service_name].uptime_target})]_vars

\* a cycle at the target after a cycle below it: one violation, kept
C31_Witness ==
    /\ ops_ret.op = "monitor_sla"
    /\ Len(sla_violations) = 1
    /\ sla_violations[1].service = "web-service"
    /\ sla_compliance["web-service"] = Slas["web-service"].uptime_target

(***************************************************************************)
(* InfoSec: security controls                                              *)
(***************************************************************************)
RequiredControls_NoMonitoring ==
    << [id |-> "access_control", name |-> "Multi-Factor Authentication",
        control_type |-> "AccessControl"],
       [id |-> "encryption", name |-> "Data Encryption at Rest",
        control_type |-> "Encryption"],
       [id |-> "firewall", name |-> "Network Firewall",
        control_type |-> "NetworkSecurity"] >>

\* required_controls of update_security_controls
RequiredControls ==
    << [id |-> "access_control", name |-> "Multi-Factor Authentication",
        control_type |-> "AccessControl"],
       [id |-> "encryption", name |-> "Data Encryption at Rest",
        control_type |-> "Encryption"],
       [id |-> "firewall", name |-> "Network Firewall",
        control_type |-> "NetworkSecurity"],
       [id |-> "monitoring", name |-> "Security Information and Event Management",
        control_type |-> "Monitoring"] >>

\* the SecurityControl pushed for a required control
SecurityControl(required) ==
    [id |-> required.id, name |-> required.name,
     control_type |-> required.control_type,
     status |-> "Active", effectiveness |-> 85]

\* active_controls.iter().any(|c| c.id == id)
HasControl(controls, id) == \E i \in 1..Len(controls) : controls[i].id = id

\* the loop over required_controls: a control is pushed when none has its id
RECURSIVE EnsureControls(_, _)
EnsureControls(required, controls) ==
    IF required = << >> THEN controls
    ELSE EnsureControls(Tail(required),
                        IF HasControl(controls, Head(required).id) THEN controls
                        ELSE Append(controls, SecurityControl(Head(required))))

\* update_security_controls: what it writes and returns
update_security_controls_effect(op) ==
    /\ active_controls' = EnsureControls(RequiredControls, active_controls)
    /\ infosec_ret' = [op |-> op, ok |-> TRUE, value |-> None]

\* update_security_controls
update_security_controls ==
    /\ update_security_controls_effect("update_security_controls")
    /\ UNCHANGED << security_posture, devops_vars, ops_vars, ticket_vars, server_vars,
                    net_vars, bus_vars, run_vars, sec_vars, perf_vars, orch_vars,
                    daily_vars, sla_vars, load_balancers >>

InfoSecControlsNext ==
    \/ update_security_controls
    \/ \E incident_report \in SecurityIncidentReports : handle_incident(incident_report)

\* the list holds exactly one control, Active, for each of the four ids
FourActiveControls(controls) ==
    /\ Len(controls) = 4
    /\ \A id \in {"access_control", "encryption", "firewall", "monitoring"} :
          Cardinality({i \in 1..Len(controls) :
                          controls[i].id = id /\ controls[i].status = "Active"}) = 1

\* C40: after a call of update_security_controls the posture holds exactly
\* one active control for each of access_control, encryption, firewall and
\* monitoring; a further call leaves the list as it is; no two controls ever
\* share an id.
C40_ControlsIdempotent ==
    /\ [](\A i, j \in 1..Len(active_controls) :
             active_controls[i].id = active_controls[j].id => i = j)
    /\ [][infosec_ret'.op = "update_security_controls"
             => /\ FourActiveControls(active_controls')
                /\ active_controls # << >> => active_controls' = active_controls]_vars

\* a second call has returned with incidents handled in between
C40_Witness ==
    /\ infosec_ret.op = "update_security_controls"
    /\ Len(active_controls) = 4
    /\ DOMAIN active_incidents # {}

(***************************************************************************)
(* AgentTrait::process_message of the four departments: the match on        *)
(* message.message_type.  Arms whose handlers are modelled above are        *)
(* dispatched to them; the "_" arm prints and returns Ok(()).               *)
(***************************************************************************)
DevOpsMessageTypes == {"deploy_request", "health_check", "scale_request", "backup_request"}
InfoSecMessageTypes == {"vulnerability_scan", "incident_report", "threat_check",
                        "compliance_audit", "security_update"}
OpsMessageTypes == {"create_ticket", "declare_incident", "sla_check", "maintenance_task",
                    "generate_report"}
NetworkingMessageTypes == {"configure_segment", "add_firewall_rule", "performance_monitor",
                           "register_service"}

\* draws of the handlers the arms call: usage of a checked server, scores of
\* a compliance audit, draw of an SLA check (0.4425001, below the target, and
\* 0.45, at it)
DispatchHealthSamples == {<< 40, 40, 40 >>, << 91, 20, 30 >>}
DailyAuditScores == {<< 80, 85, 90 >>, << 99, 99, 99 >>}
DailySlaSamples == {475130880, 483183808}

\* the arm of the match a message kind selects
DevOpsArm(message_type) ==
    IF message_type \in DevOpsMessageTypes THEN message_type ELSE "_"
InfoSecArm(message_type) ==
    IF message_type \in InfoSecMessageTypes THEN message_type ELSE "_"
OpsArm_DefaultsToTicket(message_type) ==
    IF message_type \in OpsMessageTypes THEN message_type ELSE "create_ticket"
OpsArm(message_type) ==
    IF message_type \in OpsMessageTypes THEN message_type ELSE "_"
NetworkingArm(message_type) ==
    IF message_type \in NetworkingMessageTypes THEN message_type ELSE "_"

\* metadata maps of the messages: no key at all, or the target of a scan
EmptyMetadata ==
    [project_id |-> None, environment |-> None, target |-> None, title |-> None,
     customer_id |-> None, name |-> None, cidr |-> None, source |-> None,
     destination |-> None, endpoint |-> None]
ScanMetadata == [EmptyMetadata EXCEPT !.target = Some("web-portal")]

\* kinds of the messages sent to the agents: recognized kinds of every
\* department and two kinds main.rs sends that no department recognizes
DispatchedTypes ==
    {"deploy_request", "vulnerability_scan", "create_ticket", "configure_segment",
     "backup_request", "threat_check", "generate_report",
     "status_update", "infrastructure_alert"}

DispatchedMessages ==
    [message_type : DispatchedTypes, metadata : {EmptyMetadata}]
       \cup [message_type : {"vulnerability_scan"}, metadata : {ScanMetadata}]

\* the "_" arms: the kind is printed, nothing is written, Ok(()) is returned
\* (the returned record notes the arm taken)
devops_unknown_message(message) ==
    /\ dev_pc = "idle"
    /\ dev_ret' = [op |-> "process_message", ok |-> TRUE, value |-> None,
                   deployed |-> None, arm |-> "_"]
    /\ UNCHANGED << active_deployments, tasks, dev_pc, dev_frame,
                    infosec_vars, ops_vars, ext_vars >>

infosec_unknown_message(message) ==
    /\ infosec_ret' = [op |-> "process_message", ok |-> TRUE, value |-> None,
                       arm |-> "_"]
    /\ UNCHANGED << security_posture, devops_vars, ops_vars, ext_vars >>

ops_unknown_message(message) ==
    /\ ops_ret' = [op |-> "process_message", ok |-> TRUE, value |-> 0,
                   arm |-> "_"]
    /\ UNCHANGED << incidents, change_queue, devops_vars, infosec_vars, ext_vars >>

networking_unknown_message(message) ==
    /\ net_ret' = [op |-> "process_message", ok |-> TRUE, value |-> 0,
                   arm |-> "_"]
    /\ UNCHANGED << segments, devops_vars, infosec_vars, ops_vars,
                    ticket_vars, server_vars, bus_vars, run_vars, more_vars >>

\* the map after "for server_id in servers.keys()": every server has been
\* checked once, each with the three values drawn for it
HealthCheckedServers(server_map, samples) ==
    [id \in DOMAIN server_map |->
        CheckedServer(server_map[id], samples[id][1], samples[id][2], samples[id][3])]

\* process_message, "health_check" arm: check_server_health for every key of
\* the server map; the keys are those of the map, so no call returns Err
process_message_health_check(samples) ==
    /\ dev_pc = "idle"
    /\ ChecksDone(servers, DOMAIN servers) + Cardinality(DOMAIN servers) <= MaxChecks
    /\ servers' = HealthCheckedServers(servers, samples)
    /\ dev_ret' = [op |-> "process_message", ok |-> TRUE, value |-> None,
                   deployed |-> None, arm |-> "health_check"]
    /\ UNCHANGED << active_deployments, tasks, dev_pc, dev_frame, infra_ret,
                    infosec_vars, ops_vars, ticket_vars, net_vars, bus_vars,
                    run_vars, more_vars >>

\* process_message, "backup_request" arm: perform_backup writes the backup
\* record of the infrastructure state (last_backup, backup_success,
\* total_backups), which is not part of the state followed
process_message_backup_request ==
    /\ dev_pc = "idle"
    /\ dev_ret' = [op |-> "process_message", ok |-> TRUE, value |-> None,
                   deployed |-> None, arm |-> "backup_request"]
    /\ UNCHANGED << active_deployments, tasks, dev_pc, dev_frame,
                    infosec_vars, ops_vars, ext_vars >>

\* DevOpsAgent::process_message
devops_process_message(message) ==
    CASE DevOpsArm(message.message_type) = "deploy_request" ->
            \/ process_message_deploy_request(message.metadata)
            \/ process_message_deploy_request_skipped(message.metadata)
      [] DevOpsArm(message.message_type) = "health_check" ->
            \E samples \in [DOMAIN servers -> DispatchHealthSamples] :
               process_message_health_check(samples)
      [] DevOpsArm(message.message_type) = "scale_request" ->
            process_message_scale_request
      [] DevOpsArm(message.message_type) = "backup_request" ->
            process_message_backup_request
      [] DevOpsArm(message.message_type) = "_" -> devops_unknown_message(message)

\* process_message, "threat_check" arm: monitor_threats pushes the event it
\* detects on security_posture.recent_events, which is not part of the state
\* followed
process_message_threat_check ==
    /\ infosec_ret' = [op |-> "process_message", ok |-> TRUE, value |-> None,
                       arm |-> "threat_check"]
    /\ UNCHANGED << security_posture, devops_vars, ops_vars, ext_vars >>

\* process_message, "compliance_audit" arm
process_message_compliance_audit(gdpr_score, soc2_score, iso_score, profile) ==
    perform_compliance_audit_as(gdpr_score, soc2_score, iso_score, profile,
                                "process_message")

\* process_message, "security_update" arm
process_message_security_update ==
    /\ update_security_controls_effect("process_message")
    /\ UNCHANGED << security_posture, devops_vars, ops_vars, ticket_vars, server_vars,
                    net_vars, bus_vars, run_vars, sec_vars, perf_vars, orch_vars,
                    daily_vars, sla_vars, load_balancers >>

\* InfoSecAgent::process_message
infosec_process_message(message) ==
    CASE InfoSecArm(message.message_type) = "vulnerability_scan" ->
            process_message_vulnerability_scan(message.metadata.target)
      [] InfoSecArm(message.message_type) = "incident_report" ->
            process_message_incident_report(message.metadata.title)
      [] InfoSecArm(message.message_type) = "threat_check" ->
            process_message_threat_check
      [] InfoSecArm(message.message_type) = "compliance_audit" ->
            \E scores \in DailyAuditScores, profile \in BuildProfiles :
               process_message_compliance_audit(scores[1], scores[2], scores[3], profile)
      [] InfoSecArm(message.message_type) = "security_update" ->
            process_message_security_update
      [] InfoSecArm(message.message_type) = "_" -> infosec_unknown_message(message)

\* process_message, "sla_check" arm
process_message_sla_check(samples) ==
    /\ monitor_sla_effect(samples, "process_message")
    /\ UNCHANGED << incidents, change_queue, devops_vars, infosec_vars, ticket_vars,
                    server_vars, net_vars, bus_vars, run_vars, sec_vars, perf_vars,
                    orch_vars, daily_vars, load_balancers, active_controls >>

\* process_message, "maintenance_task" and "generate_report" arms:
\* perform_maintenance only prints and generate_report only reads
process_message_read_only(arm) ==
    /\ ops_ret' = [op |-> "process_message", ok |-> TRUE, value |-> 0,
                   arm |-> arm]
    /\ UNCHANGED << incidents, change_queue, devops_vars, infosec_vars, ext_vars >>

\* OpsAgent::process_message
ops_process_message(message) ==
    CASE OpsArm(message.message_type) = "create_ticket" ->
            process_message_create_ticket(message.metadata)
      [] OpsArm(message.message_type) = "declare_incident" ->
            process_message_declare_incident(message.metadata.title)
      [] OpsArm(message.message_type) = "sla_check" ->
            \E samples \in [DOMAIN Slas -> DailySlaSamples] :
               process_message_sla_check(samples)
      [] OpsArm(message.message_type) \in {"maintenance_task", "generate_report"} ->
            process_message_read_only(OpsArm(message.message_type))
      [] OpsArm(message.message_type) = "_" -> ops_unknown_message(message)

\* process_message, "performance_monitor" arm: monitor_performance, then
\* optimize_performance, whose suggestions are printed
process_message_performance_monitor(metrics) ==
    monitor_performance_as(metrics, "process_message")

\* NetworkingAgent::process_message
networking_process_message(message) ==
    CASE NetworkingArm(message.message_type) = "configure_segment" ->
            process_message_configure_segment(message.metadata)
      [] NetworkingArm(message.message_type) = "add_firewall_rule" ->
            process_message_add_firewall_rule(message.metadata)
      [] NetworkingArm(message.message_type) = "performance_monitor" ->
            \E metrics \in [DOMAIN segments -> BandwidthSamples] :
               process_message_performance_monitor(metrics)
      [] NetworkingArm(message.message_type) = "register_service" ->
            process_message_register_service(message.metadata)
      [] NetworkingArm(message.message_type) = "_" -> networking_unknown_message(message)

DispatchNext ==
    \/ \E server_config \in ServerConfigs : provision_server(server_config)
    \/ \E message \in DispatchedMessages : devops_process_message(message)
    \/ \E message \in DispatchedMessages : infosec_process_message(message)
    \/ \E message \in DispatchedMessages : ops_process_message(message)
    \/ \E message \in DispatchedMessages : networking_process_message(message)

DailyDepartments == {"DevOps", "InfoSec", "Ops"}

DailySequence_MaintenanceFirst(department) ==
    CASE department = "DevOps" -> << "health_check", "backup_request", "scale_request" >>
      [] department = "InfoSec" ->
            << "threat_check", "vulnerability_scan", "security_update", "compliance_audit" >>
      [] department = "Ops" -> << "maintenance_task", "sla_check", "generate_report" >>
      [] department = "Networking" -> << "performance_monitor" >>

\* the message_type fields of the messages perform_daily_tasks builds, in the
\* order of the calls
DailySequence(department) ==
    CASE department = "DevOps" -> << "health_check", "backup_request", "scale_request" >>
      [] department = "InfoSec" ->
            << "threat_check", "vulnerability_scan", "security_update", "compliance_audit" >>
      [] department = "Ops" -> << "sla_check", "maintenance_task", "generate_report" >>
      [] department = "Networking" -> << "performance_monitor" >>

\* self.agent of the department's agent
DailyAgent(department) ==
    CASE department = "DevOps" -> DevOpsAgentRecord
      [] department = "InfoSec" -> InfoSecAgentRecord
      [] department = "Ops" -> OpsAgentRecord
      [] department = "Networking" -> NetworkingAgentRecord

\* Message { from_agent: self.agent.id, to_agent: self.agent.id, message_type,
\*           metadata: HashMap::new(), .. }
DailyMessage(agent, message_type) ==
    [from_agent |-> agent.id, to_agent |-> agent.id,
     message_type |-> message_type, metadata |-> EmptyMetadata]

\* what process_message gives for a daily message: the handlers return no
\* Err; the compliance audit panics in a debug build when its sum overflows
DailyMessageOutcome(message_type, draws, profile) ==
    IF /\ message_type = "compliance_audit"
       /\ profile = "debug"
       /\ OverallCompliance(draws.scores[1], draws.scores[2], draws.scores[3]).overflow
    THEN "panic" ELSE "Ok"

\* the calls of the sequence that are made, each with what it gave: the
\* sequence ends with the first call that does not give Ok
DailyProcessed(department, draws, profile) ==
    LET sequence == DailySequence(department)
        outcome(i) == DailyMessageOutcome(sequence[i], draws, profile)
        stops == {i \in 1..Len(sequence) : outcome(i) # "Ok"}
        last == IF stops = {} THEN Len(sequence)
                ELSE CHOOSE i \in stops : \A j \in stops : i <= j
    IN  [i \in 1..last |->
            [message |-> DailyMessage(DailyAgent(department), sequence[i]),
             result |-> outcome(i)]]

\* the state of the department agents the daily tasks write
AgentState ==
    [servers |-> servers,
     active_controls |-> active_controls,
     compliance_status |-> compliance_status,
     sla_compliance |-> sla_compliance,
     sla_violations |-> sla_violations,
     bandwidth_usage |-> bandwidth_usage,
     support_tickets |-> support_tickets]

\* the draws of one perform_daily_tasks call.  DevOps: the usage
\* check_server_health samples for each server and the order auto_scale visits
\* its snapshot in; InfoSec: the scores of the compliance audit; Ops: the
\* compliance monitor_sla samples for each service, the order of its loop and
\* the Resolved tickets whose updated_at is more than 7 days old; Networking:
\* the metrics monitor_performance samples for each segment
DailyDraws(department) ==
    CASE department = "DevOps" ->
            [health : [DOMAIN servers -> DispatchHealthSamples],
             scale_order : IterationOrders(DOMAIN servers)]
      [] department = "InfoSec" -> [scores : DailyAuditScores]
      [] department = "Ops" ->
            [sla : [DOMAIN Slas -> DailySlaSamples],
             sla_order : IterationOrders(DOMAIN Slas),
             old_tickets : SUBSET {id \in DOMAIN support_tickets :
                                      support_tickets[id].status = "Resolved"}]
      [] department = "Networking" ->
            [metrics : [DOMAIN segments -> BandwidthSamples]]

\* what process_message does to the agent for a message of the sequence: the
\* arm of the message's kind, on the empty metadata map of the daily messages
DailyMessageEffect(message_type, state, draws) ==
    CASE message_type = "health_check" ->
            [state EXCEPT !.servers = HealthCheckedServers(@, draws.health)]
      [] message_type = "scale_request" ->
            [state EXCEPT !.servers =
                ScaleLoop(@, draws.scale_order, "1700000000",
                          [servers |-> @, actions |-> << >>]).servers]
      [] message_type = "security_update" ->
            [state EXCEPT !.active_controls = EnsureControls(RequiredControls, @)]
      [] message_type = "compliance_audit" ->
            [state EXCEPT !.compliance_status =
                [gdpr_compliance |-> draws.scores[1],
                 soc2_compliance |-> draws.scores[2],
                 iso27001_compliance |-> draws.scores[3]]]
      [] message_type = "sla_check" ->
            LET result == SlaLoop(draws.sla_order, draws.sla,
                                  [compliance |-> state.sla_compliance,
                                   violations |-> state.sla_violations])
            IN  [state EXCEPT !.sla_compliance = result.compliance,
                              !.sla_violations = result.violations]
      [] message_type = "performance_monitor" ->
            [state EXCEPT !.bandwidth_usage =
                MonitoredBandwidth(@, segments, draws.metrics)]
      [] message_type \in {"backup_request", "threat_check", "vulnerability_scan",
                           "maintenance_task", "generate_report"} -> state

\* the agent after the processed calls, in their order
RECURSIVE DailyFold(_, _, _)
DailyFold(processed, state, draws) ==
    IF processed = << >> THEN state
    ELSE DailyFold(Tail(processed),
                   DailyMessageEffect(Head(processed).message.message_type,
                                      state, draws),
                   draws)

\* Resolved tickets the age test of the Ops loop selects become Closed
AutoClosed(tickets, old_tickets) ==
    [id \in DOMAIN tickets |->
        IF id \in old_tickets THEN [tickets[id] EXCEPT !.status = "Closed"]
        ELSE tickets[id]]

\* perform_daily_tasks of an agent of the department: the calls made, the
\* result, and the agent it leaves.  After its calls Ops closes its old
\* Resolved tickets; Networking checks its services on a clone of the map
\* (see CheckedServices) and has no VPN to check
DailyTasksResult(department, state, draws, profile) ==
    LET processed == DailyProcessed(department, draws, profile)
        ok == \A i \in 1..Len(processed) : processed[i].result = "Ok"
        after == DailyFold(processed, state, draws)
    IN  [processed |-> processed,
         result |-> IF ok THEN "Ok" ELSE "panic",
         state |-> IF ok /\ department = "Ops"
                   THEN [after EXCEPT !.support_tickets =
                                         AutoClosed(@, draws.old_tickets)]
                   ELSE after]

\* the part of a run that is followed: health checks, servers and SLA
\* violations stay within the bounds
DailyWithinBounds(department, draws) ==
    /\ department = "DevOps" =>
          /\ ChecksDone(servers, DOMAIN servers) + Cardinality(DOMAIN servers)
                <= MaxChecks
          /\ LET checked == HealthCheckedServers(servers, draws.health)
             IN  Cardinality(DOMAIN servers)
                    + Cardinality({id \in DOMAIN servers : NeedsScaling(checked[id])})
                    <= MaxServers
    /\ department = "Ops" =>
          Len(sla_violations) + Cardinality(DOMAIN Slas) <= MaxViolations

\* daily_frame while perform_daily_tasks has not been called
IdleDaily ==
    [pc |-> "idle", department |-> "none", position |-> 0, processed |-> << >>,
     result |-> "none"]

\* perform_daily_tasks, called on the agent of a department; daily_frame
\* records the calls it made and its result
perform_daily_tasks(department, draws, profile) ==
    /\ daily_frame.pc \in {"idle", "returned"}
    /\ DailyWithinBounds(department, draws)
    /\ LET done == DailyTasksResult(department, AgentState, draws, profile)
       IN  /\ daily_frame' =
                [pc |-> IF done.result = "Ok" THEN "returned" ELSE "panicked",
                 department |-> department,
                 position |-> Len(done.processed),
                 processed |-> done.processed,
                 result |-> done.result]
           /\ servers' = done.state.servers
           /\ active_controls' = done.state.active_controls
           /\ compliance_status' = done.state.compliance_status
           /\ sla_compliance' = done.state.sla_compliance
           /\ sla_violations' = done.state.sla_violations
           /\ bandwidth_usage' = done.state.bandwidth_usage
           /\ support_tickets' = done.state.support_tickets
    /\ UNCHANGED << devops_vars, infosec_vars, ops_vars, ops_msg, infra_ret,
                    net_vars, bus_vars, run_vars, active_incidents,
                    firewall_rules, network_services, orch_vars, load_balancers >>

DailyNext ==
    \/ \E server_config \in ServerConfigs : provision_server(server_config)
    \/ \E department \in DailyDepartments, profile \in BuildProfiles :
          \E draws \in DailyDraws(department) :
             perform_daily_tasks(department, draws, profile)

\* C30: the messages perform_daily_tasks has processed are, in order, a prefix
\* of the department's checklist (DevOps health_check, backup_request,
\* scale_request; Ops sla_check, maintenance_task, generate_report; InfoSec
\* threat_check, vulnerability_scan, security_update, compliance_audit), each
\* sent from and to the agent's own id, and every message before the last
\* processed one returned Ok.
C30_DailyTasksOrdered ==
    LET checklist ==
           [DevOps |-> << "health_check", "backup_request", "scale_request" >>,
            Ops |-> << "sla_check", "maintenance_task", "generate_report" >>,
            InfoSec |-> << "threat_check", "vulnerability_scan", "security_update",
                           "compliance_audit" >>]
        own_id == [DevOps |-> DevOpsAgentId, Ops |-> OpsAgentId, InfoSec |-> InfoSecAgentId]
        processed == daily_frame.processed
    IN  daily_frame.pc # "idle" =>
           /\ Len(processed) <= Len(checklist[daily_frame.department])
           /\ \A i \in 1..Len(processed) :
                 /\ processed[i].message.message_type = checklist[daily_frame.department][i]
                 /\ processed[i].message.from_agent = own_id[daily_frame.department]
                 /\ processed[i].message.to_agent = own_id[daily_frame.department]
                 /\ i < Len(processed) => processed[i].result = "Ok"
           /\ daily_frame.pc = "returned" =>
                 /\ Len(processed) = Len(checklist[daily_frame.department])
                 /\ \A i \in 1..Len(processed) : processed[i].result = "Ok"

\* the DevOps checklist has been processed to its end and returned Ok
C30_Witness ==
    /\ daily_frame.pc = "returned"
    /\ daily_frame.department = "DevOps"
    /\ Len(daily_frame.processed) = 3
    /\ daily_frame.processed[3].message.message_type = "scale_request"
    /\ daily_frame.result = "Ok"

\* C36: when the daily tasks of InfoSec have returned Ok, a vulnerability scan
\* has been executed during the call: the posture's last_assessment is that of
\* a scan and its overall_score is the one computed from its counts.
C36_DailyScanRefreshesPosture ==
    (/\ daily_frame.pc = "returned"
     /\ daily_frame.department = "InfoSec"
     /\ daily_frame.result = "Ok")
       => /\ security_posture.last_assessment = "scan"
          /\ security_posture.overall_score =
                overall_score(vuln_penalty(security_posture.vulnerabilities))

\* the vulnerability_scan message of the daily tasks was processed and
\* returned Ok
DailyScanMessageProcessed ==
    (/\ daily_frame.pc = "returned"
     /\ daily_frame.department = "InfoSec")
       => /\ daily_frame.processed[2].message.message_type = "vulnerability_scan"
          /\ daily_frame.processed[2].message.metadata.target = None
          /\ daily_frame.processed[2].result = "Ok"

\* 100 - (20 * critical + 10 * high + 5 * medium), not below 0
ScoreOfCounts(counts) ==
    LET penalty == 20 * counts.critical + 10 * counts.high + 5 * counts.medium
    IN  IF 100 - penalty > 0 THEN 100 - penalty ELSE 0

\* C37: in every state of an InfoSec agent, the state after construction
\* included, the posture's overall_score is max(0, 100 - (20 * critical +
\* 10 * high + 5 * medium)) for the counts of the same posture.
C37_ScoreMatchesCounts ==
    security_posture.overall_score = ScoreOfCounts(security_posture.vulnerabilities)

\* once a scan has been assessed the score is the one of the counts
ScoreMatchesCountsAfterScan ==
    security_posture.last_assessment = "scan"
       => security_posture.overall_score = ScoreOfCounts(security_posture.vulnerabilities)

(***************************************************************************)
(* Orchestrator: CompanySimulation::run                                    *)
(***************************************************************************)
\* SimulationConfig as CompanySimulation::new builds it, with the step budget
\* the run is given
SimulationConfig(max_steps) ==
    [speed_multiplier |-> 1, autonomous_mode |-> TRUE,
     working_hours |-> << 9, 18 >>, max_steps |-> max_steps]

\* budgets: None (unbounded) or Some(N)
StepBudgets == {None} \cup {Some(n) : n \in 1..MaxBudget}

\* values of chrono::Utc::now().hour() around the working-hours window
Hours == {8, 9, 17, 18}

\* current_hour < start_hour || current_hour >= end_hour
OutsideWorkingHours(current_hour, working_hours) ==
    current_hour < working_hours[1] \/ current_hour >= working_hours[2]

\* the budget test at the top of the loop, after step_count += 1
BudgetReached(config, count) ==
    config.max_steps.some /\ count >= config.max_steps.value

\* run is called: step_count = 0
run_start(max_steps) ==
    /\ run_pc = "idle"
    /\ run_pc' = "loop"
    /\ step_count' = 0
    /\ steps_run' = 0
    /\ run_frame' = [config |-> SimulationConfig(max_steps), entry_count |-> 0,
                     rested |-> FALSE, result |-> "running"]
    /\ UNCHANGED << devops_vars, infosec_vars, ops_vars,
                    ticket_vars, server_vars, net_vars, bus_vars, more_vars >>

\* top of the loop: step_count += 1, then break when the budget is reached
run_loop_top ==
    /\ run_pc = "loop"
    /\ step_count < MaxIterations
    /\ step_count' = step_count + 1
    /\ IF BudgetReached(run_frame.config, step_count + 1)
       THEN /\ run_pc' = "done"
            /\ run_frame' = [run_frame EXCEPT !.entry_count = step_count,
                                              !.result = "Ok"]
       ELSE /\ run_pc' = "hours"
            /\ run_frame' = [run_frame EXCEPT !.entry_count = step_count]
    /\ UNCHANGED << steps_run, devops_vars, infosec_vars, ops_vars,
                    ticket_vars, server_vars, net_vars, bus_vars, more_vars >>

\* the working-hours check
run_check_hours(current_hour) ==
    /\ run_pc = "hours"
    /\ IF OutsideWorkingHours(current_hour, run_frame.config.working_hours)
       THEN /\ run_pc' = "resting"
            /\ run_frame' = [run_frame EXCEPT !.rested = TRUE]
       ELSE /\ run_pc' = "step"
            /\ run_frame' = run_frame
    /\ UNCHANGED << step_count, steps_run, devops_vars, infosec_vars, ops_vars,
                    ticket_vars, server_vars, net_vars, bus_vars, more_vars >>

\* outside working hours: sleep 300 seconds, continue
run_rest ==
    /\ run_pc = "resting"
    /\ run_pc' = "loop"
    /\ UNCHANGED << step_count, steps_run, run_frame, devops_vars, infosec_vars, ops_vars,
                    ticket_vars, server_vars, net_vars, bus_vars, more_vars >>

Try_Unwrapped(result_ok) == "continue"

\* the ? operator on a Result: "continue" with the Ok value, or "return" the
\* error to the caller
Try(result_ok) == IF result_ok THEN "continue" ELSE "return"

\* step_frame while no step is in progress
IdleStep == [pc |-> "idle", phases |-> << >>, failed_in |-> "none",
             runners |-> {}, called |-> {}]

\* run_simulation_step().await? is entered
run_simulation_step ==
    /\ run_pc = "step"
    /\ run_pc' = "in_step"
    /\ steps_run' = steps_run + 1
    /\ step_frame' = [pc |-> "agents", phases |-> << >>, failed_in |-> "none",
                      runners |-> {}, called |-> {}]
    /\ UNCHANGED << step_count, run_frame, agents, agents_order, devops_vars, infosec_vars, ops_vars,
                    ticket_vars, server_vars, net_vars, bus_vars,
                    sec_vars, perf_vars, daily_vars, rest_vars >>

\* a phase of run_simulation_step has returned: on Ok the step goes on to
\* the next phase (or returns Ok to run after the last one); on an error the
\* ? of the step and the ? of run return it, and run is over
phase_returns(phase, next_pc, result_ok) ==
    IF Try(result_ok) = "continue"
    THEN /\ step_frame' = IF next_pc = "idle" THEN IdleStep
                          ELSE [step_frame EXCEPT !.pc = next_pc,
                                                  !.phases = Append(@, phase)]
         /\ run_pc' = IF next_pc = "idle" THEN "sleeping" ELSE run_pc
         /\ run_frame' = run_frame
    ELSE /\ step_frame' = [step_frame EXCEPT !.pc = "failed",
                                             !.phases = Append(@, phase),
                                             !.failed_in = phase]
         /\ run_pc' = "done"
         /\ run_frame' = [run_frame EXCEPT !.result = "Err"]

\* the agents whose 10% roll makes them run perform_daily_tasks in a step: none,
\* the DevOps and Networking managers, the InfoSec and Ops managers, and these
\* with a second InfoSec agent
DailyRunners == {{}, {3, 5}, {4, 6}, {4, 6, 11}}

\* the draw of an SLA check of a run's step: 0.4425001, below the target, so
\* the step records a violation
RunSlaSamples == {475130880}

\* the draws of the daily tasks of the runners: the audit scores of every
\* InfoSec agent among them, and the draws of the DevOps, Ops and Networking
\* agents followed in the department sections (the other draws of the agents
\* not followed change nothing here)
RunnerDraws(runners) ==
    [scores : [{key \in runners : agents[key].department = "InfoSec"}
                  -> DailyAuditScores],
     DevOps : DailyDraws("DevOps"),
     Ops : {d \in DailyDraws("Ops") :
               \A name \in DOMAIN Slas : d.sla[name] \in RunSlaSamples},
     Networking : DailyDraws("Networking")]

\* the draws of the agent stored under a key
DrawsOf(draws, key) ==
    CASE agents[key].department = "InfoSec" -> [scores |-> draws.scores[key]]
      [] agents[key].department = "DevOps" -> draws.DevOps
      [] agents[key].department = "Ops" -> draws.Ops
      [] agents[key].department = "Networking" -> draws.Networking

\* the runners whose perform_daily_tasks panics
Panicking(runners, draws, profile) ==
    {key \in runners :
        /\ agents[key].department = "InfoSec"
        /\ \E i \in 1..Len(DailyProcessed("InfoSec", DrawsOf(draws, key), profile)) :
              DailyProcessed("InfoSec", DrawsOf(draws, key), profile)[i].result # "Ok"}

\* the runners whose perform_daily_tasks is called: all of them, or those up
\* to the first in the iteration order whose call panics
DailyCalled(runners, order, draws, profile) ==
    LET panicking == Panicking(runners, draws, profile)
    IN  {key \in runners :
            \A other \in panicking : PositionIn(order, key) <= PositionIn(order, other)}

\* the agents followed after the perform_daily_tasks calls of the given keys
RECURSIVE RunDailyTasks(_, _, _, _)
RunDailyTasks(keys, state, draws, profile) ==
    IF keys = {} THEN state
    ELSE LET key == CHOOSE k \in keys : TRUE
         IN  RunDailyTasks(keys \ {key},
                           DailyTasksResult(agents[key].department, state,
                                            DrawsOf(draws, key), profile).state,
                           draws, profile)

\* process_agent_activities: "for agent in self.agents.values_mut()", and for
\* the agents whose 10% roll is below 0.1 perform_daily_tasks().await?.  None
\* of the calls returns Err; a panic ends the process inside the phase
process_agent_activities(runners, order, draws, profile) ==
    /\ run_pc = "in_step" /\ step_frame.pc = "agents"
    /\ agents_order \in {<< >>, order}
    /\ agents_order' = order
    /\ \A key \in runners \cap TrackedKeys :
          DailyWithinBounds(agents[key].department, DrawsOf(draws, key))
    /\ LET called == DailyCalled(runners, order, draws, profile)
           after == RunDailyTasks(called \cap TrackedKeys, AgentState, draws, profile)
       IN  /\ servers' = after.servers
           /\ active_controls' = after.active_controls
           /\ compliance_status' = after.compliance_status
           /\ sla_compliance' = after.sla_compliance
           /\ sla_violations' = after.sla_violations
           /\ bandwidth_usage' = after.bandwidth_usage
           /\ support_tickets' = after.support_tickets
    /\ IF Panicking(runners, draws, profile) # {}
       THEN /\ step_frame' =
                  [step_frame EXCEPT
                      !.pc = "failed",
                      !.phases = Append(@, "agents"),
                      !.failed_in = "agents",
                      !.runners = runners,
                      !.called = DailyCalled(runners, order, draws, profile)]
            /\ run_pc' = "done"
            /\ run_frame' = [run_frame EXCEPT !.result = "panic"]
       ELSE phase_returns("agents", "messages", TRUE)
    /\ UNCHANGED << step_count, steps_run, agents, devops_vars, infosec_vars, ops_vars,
                    ops_msg, infra_ret, net_vars, bus_vars, active_incidents,
                    firewall_rules, network_services, daily_vars, load_balancers >>

\* process_messages, the 85% of the steps without an inter-agent message
process_messages_quiet ==
    /\ run_pc = "in_step" /\ step_frame.pc = "messages"
    /\ phase_returns("messages", "events", TRUE)
    /\ UNCHANGED << step_count, steps_run, agents, agents_order, devops_vars, infosec_vars, ops_vars,
                    ticket_vars, server_vars, net_vars, bus_vars,
                    sec_vars, perf_vars, daily_vars, rest_vars >>

\* process_messages: a message from one registry key to another is sent;
\* send_message(..).await? returns the error of a refused send, and after an
\* accepted one the line is printed and the phase returns Ok
process_messages(sender_id, receiver_id, message_type, live) ==
    /\ run_pc = "in_step" /\ step_frame.pc = "messages"
    /\ sender_id # receiver_id
    /\ Len(bus_sent) < MaxRunMessages
    /\ send_message_answer(sender_id, receiver_id, message_type, live)
    /\ phase_returns("messages", "events", live)
    /\ UNCHANGED << bus_inbox, step_count, steps_run, agents, agents_order,
                    devops_vars, infosec_vars, ops_vars,
                    ticket_vars, server_vars, net_vars,
                    sec_vars, perf_vars, daily_vars, rest_vars >>

\* the company events of generate_company_activities, by event_roll, with the
\* kind of the message each sends and the department it is sent to
CompanyEvents ==
    {[event |-> "project", message_type |-> "project_assignment", department |-> "Ops"],
     [event |-> "security", message_type |-> "declare_incident", department |-> "InfoSec"],
     [event |-> "infrastructure", message_type |-> "infrastructure_alert",
      department |-> "DevOps"],
     [event |-> "customer", message_type |-> "create_ticket", department |-> "Ops"]}

\* generate_company_activities, event_roll >= 0.18: no event
generate_company_activities_quiet ==
    /\ run_pc = "in_step" /\ step_frame.pc = "events"
    /\ phase_returns("events", "health", TRUE)
    /\ UNCHANGED << step_count, steps_run, agents, agents_order, devops_vars, infosec_vars, ops_vars,
                    ticket_vars, server_vars, net_vars, bus_vars,
                    sec_vars, perf_vars, daily_vars, rest_vars >>

\* generate_company_activities with an event: the handle_* function sends one
\* message from Uuid::nil() to the first agent of the department (the project
\* event also looks for an Engineering agent, and the registry has none)
generate_company_activities(company_event, live) ==
    /\ run_pc = "in_step" /\ step_frame.pc = "events"
    /\ Len(bus_sent) < MaxRunMessages
    /\ agents_order # << >>
    /\ LET first == FirstAgentOf(agents, agents_order, company_event.department)
           to_agent == agents[first.value].id
       IN  /\ first.some
           /\ send_message_answer(NilAgentId, to_agent, company_event.message_type,
                                  live)
           /\ phase_returns("events", "health", live)
    /\ UNCHANGED << bus_inbox, step_count, steps_run, agents, agents_order,
                    devops_vars, infosec_vars, ops_vars,
                    ticket_vars, server_vars, net_vars,
                    sec_vars, perf_vars, daily_vars, rest_vars >>

\* monitor_system_health only prints; the step returns Ok
monitor_system_health ==
    /\ run_pc = "in_step" /\ step_frame.pc = "health"
    /\ phase_returns("health", "idle", TRUE)
    /\ UNCHANGED << step_count, steps_run, agents, agents_order, devops_vars, infosec_vars, ops_vars,
                    ticket_vars, server_vars, net_vars, bus_vars,
                    sec_vars, perf_vars, daily_vars, rest_vars >>

\* the bus hands a queued message to its recipient while run is in progress
run_bus_deliver(pair) ==
    /\ run_pc # "idle"
    /\ bus_deliver(pair)

\* the sleep between steps, 60.0 / speed_multiplier seconds
run_sleep ==
    /\ run_pc = "sleeping"
    /\ run_pc' = "loop"
    /\ UNCHANGED << step_count, steps_run, run_frame, devops_vars, infosec_vars, ops_vars,
                    ticket_vars, server_vars, net_vars, bus_vars, more_vars >>

\* the steps of the driver task
RunDriverNext ==
    \/ \E max_steps \in StepBudgets : run_start(max_steps)
    \/ run_loop_top
    \/ \E current_hour \in Hours : run_check_hours(current_hour)
    \/ run_rest
    \/ run_simulation_step
    \/ \E runners \in DailyRunners, order \in IterationOrderSamples,
          profile \in BuildProfiles :
             \E draws \in RunnerDraws(runners) :
                process_agent_activities(runners, order, draws, profile)
    \/ process_messages_quiet
    \/ \E sender_id \in DrawnSenders : \E receiver_id \in DrawnReceivers :
          \E message_type \in DrawnKinds, live \in BusAnswers :
             process_messages(sender_id, receiver_id, message_type, live)
    \/ generate_company_activities_quiet
    \/ \E company_event \in CompanyEvents, live \in BusAnswers :
          generate_company_activities(company_event, live)
    \/ monitor_system_health
    \/ run_sleep

RunNext ==
    \/ RunDriverNext
    \/ \E pair \in BusChannels : run_bus_deliver(pair)

\* the driver is the one task of the tokio runtime and is always scheduled;
\* the bus delivers every message it has queued
RunFairness ==
    /\ WF_vars(RunDriverNext)
    /\ WF_vars(\E pair \in BusChannels : run_bus_deliver(pair))

RunInit ==
    /\ run_pc = "idle"
    /\ step_count = 0
    /\ steps_run = 0
    /\ run_frame = [config |-> SimulationConfig(None), entry_count |-> 0,
                    rested |-> FALSE, result |-> "none"]

\* C19: an iteration that falls outside the working hours runs no simulation
\* step and does not advance the step count: after its wait the counter has
\* the value it had before the iteration.
C19_SkippedIterationKeepsCount ==
    [][(run_pc = "resting" /\ run_pc' = "loop")
          => /\ step_count' = run_frame.entry_count
             /\ steps_run' = steps_run]_vars

\* C20: with max_steps = N >= 1 the run ends with Ok, and when every
\* iteration was inside the working hours and no handler failed, exactly N
\* simulation steps have been executed at that point.
C20_BudgetRunsExactlyNSteps ==
    (/\ run_pc = "done"
     /\ run_frame.result = "Ok"
     /\ ~run_frame.rested)
       => /\ run_frame.config.max_steps.some
          /\ steps_run = run_frame.config.max_steps.value


\* C26: every message the orchestrator has sent through the bus to a
\* registered department agent is eventually consumed by that agent's
\* process_message: once a customer-request event has been routed to the Ops
\* agent, that agent eventually holds a support ticket.
C26_SentMessageConsumed ==
    (\E i \in 1..Len(bus_sent) :
        /\ bus_sent[i].message_type = "create_ticket"
        /\ bus_sent[i].to_agent = OpsAgentId)
       ~> (DOMAIN support_tickets # {})

\* the agent stored under a tracked key is left as it was by the step
AgentUntouched(key) ==
    CASE agents[key].department = "DevOps" -> servers' = servers
      [] agents[key].department = "InfoSec" ->
            /\ active_controls' = active_controls
            /\ compliance_status' = compliance_status
      [] agents[key].department = "Networking" -> bandwidth_usage' = bandwidth_usage
      [] agents[key].department = "Ops" ->
            /\ sla_compliance' = sla_compliance
            /\ sla_violations' = sla_violations
            /\ support_tickets' = support_tickets

\* C27: when a bus send of a step returns an error, or the
\* perform_daily_tasks call of an agent fails, the run ends there: the step
\* stops in the phase that failed, the agents after the failing one in the
\* loop of process_agent_activities are not called, the later phases of the
\* step are not executed and no further step is started.  A bus error is
\* the result of run.  No perform_daily_tasks of the four departments
\* returns Err; the failure the code can produce there is the overflow panic
\* of the compliance audit in a debug build, which ends run without a result.
C27_ErrorAbortsRun ==
    [][/\ (/\ \/ \E sender_id \in DrawnSenders : \E receiver_id \in DrawnReceivers :
                    \E message_type \in DrawnKinds, live \in BusAnswers :
                       process_messages(sender_id, receiver_id, message_type, live)
              \/ \E company_event \in CompanyEvents, live \in BusAnswers :
                    generate_company_activities(company_event, live)
           /\ ~bus_ret'.ok)
            => /\ run_pc' = "done"
               /\ run_frame'.result = "Err"
               /\ step_frame'.pc = "failed"
               /\ step_frame'.failed_in = step_frame.pc
               /\ step_frame'.phases = Append(step_frame.phases, step_frame.pc)
               /\ steps_run' = steps_run
       /\ (/\ run_pc = "in_step" /\ step_frame.pc = "agents"
           /\ step_frame'.pc = "failed")
            => /\ run_pc' = "done"
               /\ run_frame'.result = "panic"
               /\ step_frame'.failed_in = "agents"
               /\ step_frame'.phases = << "agents" >>
               /\ steps_run' = steps_run
               /\ bus_sent' = bus_sent
               /\ \E failed \in step_frame'.called :
                     step_frame'.called =
                        {key \in step_frame'.runners :
                            PositionIn(agents_order', key)
                               <= PositionIn(agents_order', failed)}
               /\ \A key \in (step_frame'.runners \ step_frame'.called)
                                \cap TrackedKeys : AgentUntouched(key)
       /\ run_pc = "done"
            => /\ << run_pc, step_count, steps_run, run_frame, step_frame >>'
                  = << run_pc, step_count, steps_run, run_frame, step_frame >>
               /\ bus_sent' = bus_sent
               /\ bus_ret' = bus_ret
               /\ AgentState' = AgentState]_vars

\* C27 witness: the second step of a run was ended by a refused send of
\* process_messages, after the agents phase and before the events phase.
C27_Witness ==
    /\ run_pc = "done"
    /\ run_frame.result = "Err"
    /\ ~bus_ret.ok /\ bus_ret.error = "UnknownRecipient"
    /\ step_frame.pc = "failed"
    /\ step_frame.failed_in = "messages"
    /\ step_frame.phases = << "agents", "messages" >>
    /\ steps_run = 2
    /\ Len(bus_sent) = 1

\* a run ended in the agents phase: the daily tasks of the InfoSec manager
\* failed and those of the Ops manager, next in the loop, were not called
MaintenanceFailureEndsRun ==
    /\ run_pc = "done"
    /\ run_frame.result = "panic"
    /\ step_frame.failed_in = "agents"
    /\ step_frame.runners = {4, 6}
    /\ step_frame.called = {4}
    /\ compliance_status.gdpr_compliance = 99
    /\ sla_compliance = EmptyMap

\* a refused send of the events phase ended the run before the health summary
EventSendFailureEndsRun ==
    /\ run_pc = "done"
    /\ run_frame.result = "Err"
    /\ ~bus_ret.ok
    /\ step_frame.failed_in = "events"
    /\ step_frame.phases = << "agents", "messages", "events" >>

\* C23: from the end of initialization onwards the registry holds at least 10
\* agents and at least one agent of each of DevOps, InfoSec, Networking and
\* Ops; no agent leaves the registry and no agent changes department.
C23_RegistryStable ==
    /\ [](/\ Cardinality(DOMAIN agents) >= 10
          /\ \A department \in {"DevOps", "InfoSec", "Networking", "Ops"} :
                \E key \in DOMAIN agents : agents[key].department = department)
    /\ [][\A key \in DOMAIN agents :
             /\ key \in DOMAIN agents'
             /\ agents'[key].department = agents[key].department]_vars

C23_Witness ==
    /\ run_pc = "sleeping"
    /\ steps_run = 2
    /\ Len(bus_sent) = 2
    /\ Cardinality(DOMAIN agents) = 16
    /\ Cardinality({key \in DOMAIN agents : agents[key].department = "DevOps"}) = 6

(***************************************************************************)
(* Lookups by id: DevOps servers and Ops incidents side by side            *)
(***************************************************************************)
LookupSamples == {<< 40, 40, 40 >>}

LookupUpdates ==
    [status : {"Investigating", "Resolved"}, root_cause : {None},
     resolution : {None}]

LookupNext ==
    \/ \E server_config \in ServerConfigs : provision_server(server_config)
    \/ \E server_id \in ServerIds : \E sample \in LookupSamples :
          check_server_health(server_id, sample[1], sample[2], sample[3])
    \/ \E incident_report \in IncidentReports : declare_incident(incident_report)
    \/ \E incident_id \in IncidentIds : \E update \in LookupUpdates :
          update_incident(incident_id, update)

\* C28: a lookup by an absent id fails without side effects:
\* check_server_health returns ServerNotFound and leaves the servers as they
\* were, update_incident returns IncidentNotFound and leaves the incidents as
\* they were.
C28_AbsentIdFailsWithoutEffect ==
    [][/\ \A server_id \in ServerIds : \A sample \in LookupSamples :
             (/\ server_id \notin DOMAIN servers
              /\ infra_ret'.op = "check_server_health"
              /\ check_server_health_effect(server_id, sample[1], sample[2], sample[3]))
                => /\ ~infra_ret'.ok
                   /\ infra_ret'.value = server_id
                   /\ servers' = servers
       /\ \A incident_id \in IncidentIds : \A update \in LookupUpdates :
             (/\ incident_id \notin DOMAIN incidents
              /\ ops_ret'.op = "update_incident"
              /\ update_incident_effect(incident_id, update))
                => /\ ~ops_ret'.ok
                   /\ ops_ret'.value = incident_id
                   /\ incidents' = incidents]_vars

C28_Witness ==
    /\ infra_ret.op = "check_server_health" /\ ~infra_ret.ok
    /\ infra_ret.value \notin DOMAIN servers
    /\ DOMAIN servers # {}
    /\ ops_ret.op = "update_incident" /\ ~ops_ret.ok
    /\ DOMAIN incidents # {}

(***************************************************************************)
(* Messages of a recognized kind that carry no metadata key                *)
(***************************************************************************)
MetadataLess(message_type) == [message_type |-> message_type, metadata |-> EmptyMetadata]

MetadataLessNext ==
    \/ devops_process_message(MetadataLess("deploy_request"))
    \/ \E message_type \in {"create_ticket", "declare_incident"} :
          ops_process_message(MetadataLess(message_type))
    \/ process_message_incident_report(EmptyMetadata.title)
    \/ \E message_type \in {"configure_segment", "add_firewall_rule", "register_service"} :
          networking_process_message(MetadataLess(message_type))

\* a deploy_request without metadata returns Ok and adds a deployment
DeployRequestCreates ==
    devops_process_message(MetadataLess("deploy_request"))
       => /\ dev_ret'.ok
          /\ Cardinality(DOMAIN active_deployments') =
                Cardinality(DOMAIN active_deployments) + 1

\* the Ops kinds without metadata return Ok and add a ticket, an incident
OpsRequestsCreate ==
    /\ ops_process_message(MetadataLess("create_ticket"))
          => /\ ops_ret'.ok
             /\ \E id \in DOMAIN support_tickets' \ DOMAIN support_tickets :
                   /\ support_tickets'[id].title = "Support Request"
                   /\ support_tickets'[id].customer_id = None
    /\ ops_process_message(MetadataLess("declare_incident"))
          => /\ ops_ret'.ok
             /\ \E id \in DOMAIN incidents' \ DOMAIN incidents :
                   incidents'[id].title = "System Incident"

\* an incident_report without metadata returns Ok and adds a security incident
IncidentReportCreates ==
    process_message_incident_report(EmptyMetadata.title)
       => /\ infosec_ret'.ok
          /\ \E id \in DOMAIN active_incidents' \ DOMAIN active_incidents :
                /\ active_incidents'[id].title = "Security Incident"
                /\ active_incidents'[id].affected_systems = << "unknown" >>

\* the Networking kinds without metadata return Ok and add a segment, a rule,
\* a service
NetworkingRequestsCreate ==
    /\ networking_process_message(MetadataLess("configure_segment"))
          => /\ net_ret'.ok
             /\ \E id \in DOMAIN segments' \ DOMAIN segments :
                   /\ segments'[id].name = "default"
                   /\ segments'[id].cidr = "10.0.0.0/24"
    /\ networking_process_message(MetadataLess("add_firewall_rule"))
          => /\ net_ret'.ok
             /\ Len(firewall_rules') = Len(firewall_rules) + 1
             /\ firewall_rules'[Len(firewall_rules')].name = "default-rule"
             /\ firewall_rules'[Len(firewall_rules')].source_segment = "any"
             /\ firewall_rules'[Len(firewall_rules')].destination_segment = "any"
    /\ networking_process_message(MetadataLess("register_service"))
          => /\ net_ret'.ok
             /\ "unknown" \in DOMAIN network_services'
             /\ network_services'["unknown"].endpoints = << "localhost:8080" >>

\* C29: a message of a recognized kind without its metadata keys makes
\* process_message return Ok and still carries out the kind's operation with
\* default values: a deployment, ticket, incident, security incident, segment,
\* firewall rule or service is created.
C29_MetadataLessStillCreates ==
    [][/\ DeployRequestCreates
       /\ OpsRequestsCreate
       /\ IncidentReportCreates
       /\ NetworkingRequestsCreate]_vars

\* the kinds other than deploy_request do fall back to their defaults
MetadataLessDefaultsElsewhere ==
    [][/\ OpsRequestsCreate
       /\ IncidentReportCreates
       /\ NetworkingRequestsCreate]_vars

\* the deploy_request without project_id returned Ok and no deployment exists,
\* while the other kinds have created their records
MetadataLessOutcome ==
    /\ dev_ret.op = "process_message" /\ dev_ret.ok
    /\ DOMAIN active_deployments = {}
    /\ DOMAIN support_tickets # {}
    /\ DOMAIN incidents # {}
    /\ DOMAIN active_incidents # {}
    /\ DOMAIN segments # {}
    /\ Len(firewall_rules) > 0
    /\ "unknown" \in DOMAIN network_services

(***************************************************************************)
(* Networking: load balancers and optimize_performance                     *)
(***************************************************************************)
\* Vec<BackendServer> values: every list of at most MaxBackends backends,
\* each healthy or not
BackendLists ==
    UNION {[1..n -> [healthy : BOOLEAN]] : n \in 0..MaxBackends}

LoadBalancerConfigs ==
    [name : {"web-lb", "api-lb"}, algorithm : {"RoundRobin"}, backends : BackendLists]

\* the LoadBalancer record configure_load_balancer pushes
LoadBalancer(lb_id, config) ==
    [id |-> lb_id, name |-> config.name, algorithm |-> config.algorithm,
     backends |-> config.backends, status |-> "Active"]

\* format!("lb-{}", Uuid::new_v4().simple()): an id no load balancer has yet
FreshLoadBalancerId(lbs) == << "lb-", Len(lbs) + 1 >>

\* configure_load_balancer: the load balancer is pushed and Ok(lb_id) returned
configure_load_balancer(config) ==
    /\ Len(load_balancers) < MaxLoadBalancers
    /\ load_balancers' =
          Append(load_balancers,
                 LoadBalancer(FreshLoadBalancerId(load_balancers), config))
    /\ net_ret' = [op |-> "configure_load_balancer", ok |-> TRUE,
                   value |-> FreshLoadBalancerId(load_balancers)]
    /\ UNCHANGED << segments, devops_vars, infosec_vars, ops_vars, ticket_vars,
                    server_vars, bus_vars, run_vars, sec_vars, perf_vars, orch_vars,
                    daily_vars, sla_vars, active_controls >>

\* lb.backends.iter().filter(|b| b.healthy).count()
HealthyBackends(lb) == Cardinality({i \in 1..Len(lb.backends) : lb.backends[i].healthy})

\* healthy_backends < lb.backends.len() / 2, the division being that of usize
LowHealthyBackends(lb) == HealthyBackends(lb) < Len(lb.backends) \div 2

\* format!("Load balancer {} has low healthy backend count", lb.name)
LowHealthySuggestion(name) == << "Load balancer ", name, " has low healthy backend count" >>

\* the loop of optimize_performance over the load balancers
RECURSIVE LoadBalancerSuggestions(_)
LoadBalancerSuggestions(lbs) ==
    IF lbs = << >> THEN << >>
    ELSE (IF LowHealthyBackends(Head(lbs))
          THEN << LowHealthySuggestion(Head(lbs).name) >> ELSE << >>)
            \o LoadBalancerSuggestions(Tail(lbs))

\* the list optimize_performance returns; average_ms is in milliseconds,
\* percentage in thousandths of a percent
Optimizations(average_ms, percentage, lbs) ==
    LET found ==
           (IF average_ms > 30
            THEN << << "High latency detected - consider CDN optimization" >> >>
            ELSE << >>)
           \o (IF percentage > 50
               THEN << << "Packet loss detected - investigate network issues" >> >>
               ELSE << >>)
           \o LoadBalancerSuggestions(lbs)
    IN  IF found = << >> THEN << << "Network performance is optimal" >> >> ELSE found

\* performance_metrics.latency_stats.average_ms: 15.0 at construction,
\* 15.0 + rand * 10.0 after monitor_performance
LatencySamples == {15, 24}

\* performance_metrics.packet_loss.percentage: 0.01 at construction,
\* rand * 0.1 after monitor_performance
PacketLossSamples == {10, 50, 51}

\* optimize_performance, reading the metrics as they stand
optimize_performance(average_ms, percentage) ==
    /\ net_ret' = [op |-> "optimize_performance", ok |-> TRUE,
                   value |-> Optimizations(average_ms, percentage, load_balancers)]
    /\ UNCHANGED << segments, devops_vars, infosec_vars, ops_vars, ticket_vars,
                    server_vars, bus_vars, run_vars, more_vars >>

NetOptimizeNext ==
    \/ \E config \in LoadBalancerConfigs : configure_load_balancer(config)
    \/ \E average_ms \in LatencySamples, percentage \in PacketLossSamples :
          optimize_performance(average_ms, percentage)

\* C32: optimize_performance returns the low-healthy-backend suggestion for a
\* load balancer exactly when fewer than half of its backends are healthy
\* (2 * healthy < total), for every backend count.
C32_LowHealthyBelowHalf ==
    net_ret.op = "optimize_performance" =>
       \A name \in {"web-lb", "api-lb"} :
          (\E i \in 1..Len(net_ret.value) :
              net_ret.value[i] = << "Load balancer ", name,
                                    " has low healthy backend count" >>)
             <=> \E k \in 1..Len(load_balancers) :
                    /\ load_balancers[k].name = name
                    /\ 2 * Cardinality({b \in 1..Len(load_balancers[k].backends) :
                                           load_balancers[k].backends[b].healthy})
                          < Len(load_balancers[k].backends)

\* for even backend counts the code and the 50% rule agree
LowHealthyEvenCounts ==
    (/\ net_ret.op = "optimize_performance"
     /\ \A k \in 1..Len(load_balancers) : Len(load_balancers[k].backends) % 2 = 0)
       => \A name \in {"web-lb", "api-lb"} :
             (\E i \in 1..Len(net_ret.value) :
                 net_ret.value[i] = LowHealthySuggestion(name))
                <=> \E k \in 1..Len(load_balancers) :
                       /\ load_balancers[k].name = name
                       /\ 2 * HealthyBackends(load_balancers[k])
                             < Len(load_balancers[k].backends)

(***************************************************************************)
(* Properties of the agent registry: keys, ids and department tags         *)
(***************************************************************************)
\* C33: every agent of the registry is stored under the id of its own Agent
\* record, so that a message addressed to agent.get_agent().id names a key of
\* the registry.
C33_KeyIsAgentId ==
    \A key \in DOMAIN agents : agents[key].id = key

\* the department create_agent was asked for when it stored the agent under
\* the key: keys are given in call order
RequestedDepartment(key) == CreatedDepartments[key]

\* C34: the agent create_agent registers carries the department it was asked
\* for, Engineering and Sales included, so that the registry has an
\* Engineering agent for a new project to be assigned to.
C34_DepartmentTagAsRequested ==
    /\ \A key \in DOMAIN agents : agents[key].department = RequestedDepartment(key)
    /\ \A order \in IterationOrderSamples :
          FirstAgentOf(agents, order, "Engineering").some

\* the four department agents do carry the department asked for
DepartmentTagOfBuiltAgents ==
    \A key \in DOMAIN agents :
       RequestedDepartment(key) \in {"DevOps", "InfoSec", "Networking", "Ops"}
          => agents[key].department = RequestedDepartment(key)

(***************************************************************************)
(* The kinds of the company-event messages against the handlers' matches   *)
(***************************************************************************)
\* the arm process_message of a department's agent takes for a message kind
DepartmentArm(department, message_type) ==
    CASE department = "DevOps" -> DevOpsArm(message_type)
      [] department = "InfoSec" -> InfoSecArm(message_type)
      [] department = "Ops" -> OpsArm(message_type)
      [] department = "Networking" -> NetworkingArm(message_type)

\* the department of the registry's agent that has the id
DepartmentOfAgent(agent_id) ==
    agents[CHOOSE key \in DOMAIN agents : agents[key].id = agent_id].department

\* C35: every message the orchestrator sends for a company event (from
\* Uuid::nil()) has a kind that the process_message of the recipient's
\* department recognizes: it does not select the "_" arm.
C35_EventKindsRecognized ==
    \A i \in 1..Len(bus_sent) :
       bus_sent[i].from_agent = NilAgentId
          => DepartmentArm(DepartmentOfAgent(bus_sent[i].to_agent),
                           bus_sent[i].message_type) # "_"

\* the create_ticket of a customer request is recognized by Ops
CustomerRequestRecognized ==
    \A i \in 1..Len(bus_sent) :
       (bus_sent[i].from_agent = NilAgentId /\ bus_sent[i].message_type = "create_ticket")
          => DepartmentArm(DepartmentOfAgent(bus_sent[i].to_agent),
                           bus_sent[i].message_type) = "create_ticket"

(***************************************************************************)
(* Networking: perform_daily_tasks                                         *)
(***************************************************************************)
\* ServiceConfig values given to register_service directly
ServiceConfigs ==
    [name : {"api-gateway", "web-portal"}, service_type : {"WebServer"},
     endpoints : {<< "10.0.1.10:443" >>}]

register_service(service_config) == register_service_as(service_config, "register_service")

\* rand::random::<f32>() < 0.95 gives Healthy, otherwise Degraded
ServiceCheckOutcomes == {"Healthy", "Degraded"}

\* the loop "for (service_name, service) in &mut self.network_services.clone()":
\* the outcome of each check is assigned to the service of the clone, which is
\* dropped when the loop ends; the map of the agent is what it was
CheckedServices(services, checks) == services

\* perform_daily_tasks of Networking: the performance_monitor message runs
\* monitor_performance (optimize_performance only reads), then the services
\* are checked; the agent the orchestrator built has no VPN to check.  The
\* value returned is () and the record notes the outcomes of the checks
networking_perform_daily_tasks(metrics, checks) ==
    /\ bandwidth_usage' = MonitoredBandwidth(bandwidth_usage, segments, metrics)
    /\ network_services' = CheckedServices(network_services, checks)
    /\ net_ret' = [op |-> "perform_daily_tasks", ok |-> TRUE, value |-> 0,
                   checks |-> checks]
    /\ UNCHANGED << segments, firewall_rules, devops_vars, infosec_vars, ops_vars,
                    ticket_vars, server_vars, bus_vars, run_vars,
                    sec_vars, orch_vars, daily_vars, rest_vars >>

NetDailyNext ==
    \/ \E config \in SegmentConfigs : configure_segment(config)
    \/ \E service_config \in ServiceConfigs : register_service(service_config)
    \/ \E metrics \in [DOMAIN segments -> BandwidthSamples],
          checks \in [DOMAIN network_services -> ServiceCheckOutcomes] :
             networking_perform_daily_tasks(metrics, checks)

\* C38: after the daily tasks of Networking have returned, every service of
\* network_services has the status the check of that call determined; a
\* service found Degraded is stored as Degraded.
C38_ServiceChecksRecorded ==
    net_ret.op = "perform_daily_tasks"
       => \A name \in DOMAIN network_services :
             network_services[name].status = net_ret.checks[name]

\* the daily tasks leave every registered service Healthy, whatever the checks
\* found
ServicesStayHealthy ==
    \A name \in DOMAIN network_services : network_services[name].status = "Healthy"

\* C39: after approve_change(id, A) has returned Ok, every request of the
\* queue that carries the id is Approved with approver A, also when
\* submit_change_request has put several requests with that id in the queue.
C39_ApproveCoversEveryMatch ==
    [][\A change_id \in ChangeIds : \A approver \in Approvers :
          (/\ ops_ret'.op = "approve_change"
           /\ ops_ret'.ok
           /\ approve_change(change_id, approver))
             => \A i \in 1..Len(change_queue') :
                   change_queue'[i].id = change_id
                      => /\ change_queue'[i].status = "Approved"
                         /\ change_queue'[i].approver = Some(approver)]_vars

\* with no id repeated in the queue the approval covers every match
ApproveCoversUniqueIds ==
    [][\A change_id \in ChangeIds : \A approver \in Approvers :
          (/\ ops_ret'.op = "approve_change"
           /\ ops_ret'.ok
           /\ approve_change(change_id, approver)
           /\ \A i, j \in 1..Len(change_queue) :
                 change_queue[i].id = change_queue[j].id => i = j)
             => \A i \in 1..Len(change_queue') :
                   change_queue'[i].id = change_id
                      => /\ change_queue'[i].status = "Approved"
                         /\ change_queue'[i].approver = Some(approver)]_vars

SecInit ==
    /\ compliance_status = DefaultComplianceStatus
    /\ active_incidents = EmptyMap

PerfInit ==
    /\ bandwidth_usage = EmptyMap
    /\ firewall_rules = << >>
    /\ network_services = EmptyMap

OrchInit ==
    /\ agents = InitialRegistry
    /\ agents_order = << >>
    /\ step_frame = IdleStep

DailyInit == daily_frame = IdleDaily

RestInit ==
    /\ sla_compliance = EmptyMap
    /\ sla_violations = << >>
    /\ load_balancers = << >>
    /\ active_controls = << >>

OpsInit ==
    /\ incidents = EmptyMap
    /\ change_queue = << >>
    /\ ops_ret = [op |-> "none", ok |-> TRUE, value |-> 0]

Init ==
    /\ DevOpsInit /\ InfoSecInit /\ OpsInit
    /\ TicketInit /\ ServerInit /\ NetInit /\ BusInit /\ RunInit
    /\ SecInit /\ PerfInit /\ OrchInit /\ DailyInit /\ RestInit

SpecDevOps == Init /\ [][DevOpsNext]_vars

SpecInfoSecPosture == Init /\ [][InfoSecPostureNext]_vars

SpecOpsIncidents == Init /\ [][OpsIncidentsNext]_vars

SpecOpsChanges == Init /\ [][OpsChangesNext]_vars

SpecOpsTickets == Init /\ [][OpsTicketsNext]_vars

SpecDevOpsScale == Init /\ [][DevOpsScaleNext]_vars

SpecDevOpsHealth == Init /\ [][DevOpsHealthNext]_vars

SpecBus == Init /\ [][BusNext]_vars

SpecDispatch == Init /\ [][DispatchNext]_vars

SpecRun == Init /\ [][RunNext]_vars

SpecRunFair == Init /\ [][RunNext]_vars /\ RunFairness

SpecInfoSecAudit == Init /\ [][InfoSecAuditNext]_vars

SpecNetPerf == Init /\ [][NetPerfNext]_vars

SpecInfoSecIncidents == Init /\ [][InfoSecIncidentsNext]_vars

SpecLookup == Init /\ [][LookupNext]_vars

SpecMetadataLess == Init /\ [][MetadataLessNext]_vars

SpecDaily == Init /\ [][DailyNext]_vars

SpecOpsSla == Init /\ [][OpsSlaNext]_vars

SpecNetDaily == Init /\ [][NetDailyNext]_vars

SpecInfoSecControls == Init /\ [][InfoSecControlsNext]_vars

SpecNetOptimize == Init /\ [][NetOptimizeNext]_vars

\* tokio runs a spawned task as long as its runtime lives (a task dropped by
\* runtime_shutdown never runs), and a call that has started returns
DevOpsFairness ==
    /\ \A d \in DeploymentIds : WF_vars(execute_deployment(d))
    /\ WF_vars(deploy_application_return)

SpecDevOpsFair == SpecDevOps /\ DevOpsFairness

====
